---- MODULE Spec2Model ----
(***************************************************************************)
(* A model of ImageResizer (ImageResize.cpp, Utils.cpp, Utils.h): the      *)
(* three-plane image store, edge handling, the Rec.601 colour conversion,  *)
(* the chroma downsampling, the Lanczos-2 contribution tables and the      *)
(* separable resize.                                                       *)
(*                                                                         *)
(* Numbers.  8-bit samples are integers 0..255.  A double is a fixed-point *)
(* integer: a linear-light sample v is stored as v * DBLONE, a filter      *)
(* weight w as w * ONE.  The colour matrices are kept in thousandths, so   *)
(* that the sums the code forms in double precision are formed exactly;    *)
(* where the exact value of "x + 0.5" is an integer the double sum may     *)
(* fall on either side of it, and the model takes both outcomes (the       *)
(* parameter tie).                                                         *)
(*                                                                         *)
(* Each group of routines has its own specification (SpecEdge, SpecPixel,  *)
(* ...) over the same variables: Init draws the arguments, one action per  *)
(* routine applies it and records the call in pc/args/ret.                 *)
(***************************************************************************)
EXTENDS Integers, Sequences, FiniteSets, TLC

VARIABLES
    pc,         \* the routine that returned last, "init" before any call
    args,       \* the scalar arguments of that call
    ret,        \* what it returned
    imageIn,    \* IMAGE *pImageIn
    imageOut,   \* IMAGE *pImageOut
    pixel,      \* the pixel[] out-parameter of GetPixel
    rgbPixel,   \* PIXEL rgbPixel[3]
    yuvPixel,   \* PIXEL yuvPixel[3]
    contribs,   \* the ContribTable built last
    imageInLinear,  \* main's linear-light copy of imageIn
    imageOutLinear, \* main's linear-light image that GammaImage encodes
    imageTmp    \* IMAGE imageTmp of ResizeImage, between its two passes

vars == <<pc, args, ret, imageIn, imageOut, pixel, rgbPixel, yuvPixel, contribs,
          imageInLinear, imageOutLinear, imageTmp>>

---------------------------------------------------------------------------
(* Bounds of the model *)

\* image widths and heights range over 1..MaxDim
MaxDim == 3
\* the sizes of a contribution table built alone range over 1..MaxTab
MaxTab == 5
\* the driver's input images are up to MaxInDim wide and high, its output
\* images up to MaxOutDim
MaxInDim == 2
MaxOutDim == 4
\* the number of solid colours the driver's input images take
NumColours == 12
\* in-range coordinates passed to the edge handler range over -MaxCoord..MaxCoord
MaxCoord == 6
\* sample values per channel of the pixels that are converted
NumSamples == 5
\* number of different contents per image shape
NumSeeds == 2

---------------------------------------------------------------------------
(* Utils.h *)

PIXMAX == 255
FWD_GAMMA_LUTSIZE == 256
BWD_GAMMA_LUTSIZE == 4096

ColorSpaces == {"RGB", "YUV444", "YUV422", "YUV420"}
EdgeMethod == {"REPEAT", "MIRROR", "NOCONTRIB"}
PixelPrecision == {"BPP8", "DOUBLE"}

R_PLANE == 0
G_PLANE == 1
B_PLANE == 2
Y_PLANE == 0
U_PLANE == 1
V_PLANE == 2

\* a null pointer: the array with no plane
NULL == << >>

\* the int type of the build
INT_MAX == (2^30 - 1) * 2 + 1
INT_MIN == -INT_MAX - 1

CLAMP(x, a, b) == IF x < a THEN a ELSE IF x > b THEN b ELSE x

\* C's integer division, which truncates towards zero
CDiv(a, b) ==
    IF (a >= 0) = (b > 0) THEN (IF a >= 0 THEN a \div b ELSE (-a) \div (-b))
                          ELSE -((IF a >= 0 THEN a ELSE -a) \div (IF b > 0 THEN b ELSE -b))

Abs(x) == IF x < 0 THEN -x ELSE x

\* Body(value) with value computed once: a local variable of a routine
Let(value, Body(_)) == CHOOSE result \in {Body(local) : local \in {value}} : TRUE

\* values no routine of the current specification touches
NoArgs == [none |-> 0]
NoImage == [colorSpace |-> "RGB", height |-> 0, width |-> 0, precision |-> "BPP8",
            pixArray |-> NULL, dblPixArray |-> NULL]
NoPixel == << >>
NoTable == [filterWeights |-> << >>, contribPixPos |-> << >>,
            numContribPixels |-> << >>, weightsSum |-> << >>, maxTaps |-> 0]

---------------------------------------------------------------------------
(* Images: CreateImage, CopyImage *)

\* a 3-plane array as Alloc3DArray returns it (calloc: every sample 0)
Alloc3DArray(z, y, x) ==
    [p \in 0..(z - 1) |-> [yi \in 0..(y - 1) |-> [xi \in 0..(x - 1) |-> 0]]]

CreateImage(colorSpace, width, height, precision) ==
    [colorSpace |-> colorSpace, height |-> height, width |-> width,
     precision |-> precision,
     pixArray |-> IF precision = "BPP8" THEN Alloc3DArray(3, height, width) ELSE NULL,
     dblPixArray |-> IF precision = "DOUBLE" THEN Alloc3DArray(3, height, width) ELSE NULL]

\* CopyImage with a memcpy of one plane only
CopyImage_OnePlane(pImageIn, pImageOut) ==
    IF pImageIn.width # pImageOut.width \/ pImageIn.height # pImageOut.height
    THEN [ret |-> FALSE, out |-> pImageOut]
    ELSE IF ~((pImageIn.pixArray # NULL /\ pImageOut.pixArray # NULL)
              \/ (pImageIn.dblPixArray # NULL /\ pImageOut.dblPixArray # NULL))
    THEN [ret |-> FALSE, out |-> pImageOut]
    ELSE [ret |-> TRUE,
          out |-> [pImageOut EXCEPT
                     !.dblPixArray = IF pImageIn.pixArray = NULL
                                     THEN [@ EXCEPT ![0] = pImageIn.dblPixArray[0]] ELSE @,
                     !.pixArray = IF pImageIn.pixArray # NULL
                                  THEN [@ EXCEPT ![0] = pImageIn.pixArray[0]] ELSE @,
                     !.colorSpace = pImageIn.colorSpace,
                     !.precision = pImageIn.precision]]

\* CopyImage: [ret, out], out being *pImageOut after the call.  Both arrays
\* have width*height*3 samples (the dimensions are equal), so the memcpy
\* replaces the whole array of the output.
CopyImage(pImageIn, pImageOut) ==
    IF pImageIn.width # pImageOut.width \/ pImageIn.height # pImageOut.height
    THEN [ret |-> FALSE, out |-> pImageOut]
    ELSE IF ~((pImageIn.pixArray # NULL /\ pImageOut.pixArray # NULL)
              \/ (pImageIn.dblPixArray # NULL /\ pImageOut.dblPixArray # NULL))
    THEN [ret |-> FALSE, out |-> pImageOut]
    ELSE [ret |-> TRUE,
          out |-> [pImageOut EXCEPT
                     !.pixArray = IF pImageIn.pixArray # NULL
                                  THEN pImageIn.pixArray ELSE @,
                     !.dblPixArray = IF pImageIn.pixArray = NULL
                                     THEN pImageIn.dblPixArray ELSE @,
                     !.colorSpace = pImageIn.colorSpace,
                     !.precision = pImageIn.precision]]

---------------------------------------------------------------------------
(* Edge handling and pixel access *)

\* HandleEdgeCase whose mirror of a negative address is off by one
HandleEdgeCase_MirrorOff(i, imageDimMax, edgeMethod, ub) ==
    LET xy1 == IF edgeMethod = "MIRROR" /\ i < 0
               THEN (IF i = INT_MIN THEN ub ELSE -i - 1) ELSE i
        xy2 == IF edgeMethod = "MIRROR" /\ xy1 >= imageDimMax
               THEN imageDimMax * 2 - xy1 - 2 ELSE xy1
    IN  CLAMP(xy2, 0, imageDimMax - 1)

\* HandleEdgeCase without the final clamp
HandleEdgeCase_NoClamp(i, imageDimMax, edgeMethod, ub) ==
    LET xy1 == IF edgeMethod = "MIRROR" /\ i < 0
               THEN (IF i = INT_MIN THEN ub ELSE -i) ELSE i
        xy2 == IF edgeMethod = "MIRROR" /\ xy1 >= imageDimMax
               THEN imageDimMax * 2 - xy1 - 2 ELSE xy1
    IN  IF edgeMethod = "MIRROR" THEN xy2 ELSE CLAMP(xy2, 0, imageDimMax - 1)

\* HandleEdgeCase(i, imageDimMax, edgeMethod).  -xy overflows for xy = INT_MIN,
\* which is undefined: ub is the value the build leaves in xy there.
HandleEdgeCase(i, imageDimMax, edgeMethod, ub) ==
    LET xy1 == IF edgeMethod = "MIRROR" /\ i < 0
               THEN (IF i = INT_MIN THEN ub ELSE -i) ELSE i
        xy2 == IF edgeMethod = "MIRROR" /\ xy1 >= imageDimMax
               THEN imageDimMax * 2 - xy1 - 2 ELSE xy1
    IN  CLAMP(xy2, 0, imageDimMax - 1)

\* the outcomes of the overflowing negation: wrapped, saturated
UBOutcomes == {INT_MIN, INT_MAX}
\* passed where the address is a loop index or a small offset of one, never INT_MIN
NoUB == INT_MIN

\* HandleColorspaceAddress: the <<x, y>> it leaves in *x, *y
HandleColorspaceAddress(x, y, colorSpace) ==
    CASE colorSpace = "YUV422" -> <<CDiv(x, 2), y>>
      [] colorSpace = "YUV420" -> <<CDiv(x, 2), CDiv(y, 2)>>
      [] OTHER -> <<x, y>>

\* GetSubPixel(pImage, y, x, edgeMethod, plane)
GetSubPixel(pImage, y, x, edgeMethod, plane) ==
    LET x1 == HandleEdgeCase(x, pImage.width, edgeMethod, NoUB)
        y1 == HandleEdgeCase(y, pImage.height, edgeMethod, NoUB)
        a  == IF plane = U_PLANE \/ plane = V_PLANE
              THEN HandleColorspaceAddress(x1, y1, pImage.colorSpace)
              ELSE <<x1, y1>>
    IN  pImage.pixArray[plane][a[2]][a[1]]

\* GetPixel(pImage, y, x, edgeMethod, PIXEL pixel[]): [ret, pixel]
GetPixel(pImage, y, x, edgeMethod) ==
    IF pImage.pixArray = NULL
    THEN [ret |-> FALSE, pixel |-> [k \in 0..2 |-> 0]]
    ELSE LET x1 == HandleEdgeCase(x, pImage.width, edgeMethod, NoUB)
             y1 == HandleEdgeCase(y, pImage.height, edgeMethod, NoUB)
             a  == HandleColorspaceAddress(x1, y1, pImage.colorSpace)
         IN  [ret |-> TRUE,
              pixel |-> [k \in 0..2 |->
                           IF k = Y_PLANE THEN pImage.pixArray[Y_PLANE][y1][x1]
                           ELSE pImage.pixArray[k][a[2]][a[1]]]]

\* GetPixel(pImage, y, x, edgeMethod, double pixel[]): [ret, pixel]
GetPixelDbl(pImage, y, x, edgeMethod) ==
    IF pImage.dblPixArray = NULL
    THEN [ret |-> FALSE, pixel |-> [k \in 0..2 |-> 0]]
    ELSE LET x1 == HandleEdgeCase(x, pImage.width, edgeMethod, NoUB)
             y1 == HandleEdgeCase(y, pImage.height, edgeMethod, NoUB)
             a  == HandleColorspaceAddress(x1, y1, pImage.colorSpace)
         IN  [ret |-> TRUE,
              pixel |-> [k \in 0..2 |->
                           IF k = Y_PLANE THEN pImage.dblPixArray[Y_PLANE][y1][x1]
                           ELSE pImage.dblPixArray[k][a[2]][a[1]]]]

\* SetSubPixel whose bounds check lets x = width and y = height through, as
\* the nearest sample of the image
SetSubPixel_OffByOne(pImage, y, x, plane, pixVal) ==
    IF ~(y >= 0 /\ x >= 0 /\ y <= pImage.height /\ x <= pImage.width)
    THEN pImage
    ELSE LET xc == CLAMP(x, 0, pImage.width - 1)
             yc == CLAMP(y, 0, pImage.height - 1)
             a  == IF plane = U_PLANE \/ plane = V_PLANE
                   THEN HandleColorspaceAddress(xc, yc, pImage.colorSpace)
                   ELSE <<xc, yc>>
         IN  [pImage EXCEPT !.pixArray[plane][a[2]][a[1]] = pixVal]

\* SetSubPixel(pImage, y, x, plane, pixVal): *pImage after the call
SetSubPixel(pImage, y, x, plane, pixVal) ==
    IF ~(y >= 0 /\ x >= 0 /\ y < pImage.height /\ x < pImage.width)
    THEN pImage
    ELSE LET a == IF plane = U_PLANE \/ plane = V_PLANE
                  THEN HandleColorspaceAddress(x, y, pImage.colorSpace)
                  ELSE <<x, y>>
         IN  [pImage EXCEPT !.pixArray[plane][a[2]][a[1]] = pixVal]

\* SetPixel(pImage, y, x, pixel): *pImage after the call
SetPixel(pImage, y, x, pix) ==
    IF ~(y >= 0 /\ x >= 0 /\ y < pImage.height /\ x < pImage.width)
    THEN pImage
    ELSE LET a == HandleColorspaceAddress(x, y, pImage.colorSpace)
             p0 == [pImage.pixArray EXCEPT ![Y_PLANE][y][x] = pix[Y_PLANE]]
             p1 == [p0 EXCEPT ![U_PLANE][a[2]][a[1]] = pix[U_PLANE]]
             p2 == [p1 EXCEPT ![V_PLANE][a[2]][a[1]] = pix[V_PLANE]]
         IN  [pImage EXCEPT !.pixArray = p2]

---------------------------------------------------------------------------
(* Rec.601 pixel conversion *)

\* the coefficients in thousandths, the offset (4th column) in units
RGBtoYUV601 ==
    << <<65738, 129057, 25064, 16>>,
       <<-37946, -74494, 112439, 128>>,
       <<112439, -94154, -18285, 128>> >>

YUV601toRGB ==
    << <<298082, 0, 408583, -16>>,
       <<298082, -100291, -208120, -128>>,
       <<298082, 516411, 0, -128>> >>

\* the denominator of the sums below: /256.0 of coefficients in thousandths
MatDen == 256 * 1000

\* the three tie outcomes of one conversion, one per channel
Ties == [0..2 -> {0, 1}]

\* (PIXEL)(CLAMP(v, 0, PIXMAX)) for v = num/MatDen.  tie = 1: the double sum
\* of an exact integer value fell just below it.
ClampToPixel(num, tie) ==
    IF num < 0 THEN 0
    ELSE IF num > PIXMAX * MatDen THEN PIXMAX
    ELSE IF num % MatDen = 0 /\ tie = 1 /\ num > 0 THEN num \div MatDen - 1
    ELSE num \div MatDen

\* RGBPixel2YUV that casts without adding 0.5
RGBPixel2YUV_Trunc(rgb, tie) ==
    [k \in 0..2 |->
       ClampToPixel(RGBtoYUV601[k + 1][1] * rgb[R_PLANE]
                    + RGBtoYUV601[k + 1][2] * rgb[G_PLANE]
                    + RGBtoYUV601[k + 1][3] * rgb[B_PLANE]
                    + RGBtoYUV601[k + 1][4] * MatDen, tie[k])]

\* RGBPixel2YUV(rgbPixel, yuvPixel): the yuvPixel it writes
RGBPixel2YUV(rgb, tie) ==
    [k \in 0..2 |->
       ClampToPixel(RGBtoYUV601[k + 1][1] * rgb[R_PLANE]
                    + RGBtoYUV601[k + 1][2] * rgb[G_PLANE]
                    + RGBtoYUV601[k + 1][3] * rgb[B_PLANE]
                    + RGBtoYUV601[k + 1][4] * MatDen + MatDen \div 2, tie[k])]

\* the sum YUVPixel2RGB forms for channel k, with the 0.5, times MatDen
YUV2RGBSum(yuv, k) ==
    YUV601toRGB[k + 1][1] * (yuv[Y_PLANE] + YUV601toRGB[1][4])
    + YUV601toRGB[k + 1][2] * (yuv[U_PLANE] + YUV601toRGB[2][4])
    + YUV601toRGB[k + 1][3] * (yuv[V_PLANE] + YUV601toRGB[3][4])
    + MatDen \div 2

\* YUVPixel2RGB that applies the matrix without removing the offsets first
YUVPixel2RGB_NoOffset(yuv, tie) ==
    [k \in 0..2 |->
       ClampToPixel(YUV601toRGB[k + 1][1] * yuv[Y_PLANE]
                    + YUV601toRGB[k + 1][2] * yuv[U_PLANE]
                    + YUV601toRGB[k + 1][3] * yuv[V_PLANE] + MatDen \div 2, tie[k])]

\* YUVPixel2RGB(yuvPixel, rgbPixel): the rgbPixel it writes
YUVPixel2RGB(yuv, tie) ==
    [k \in 0..2 |-> ClampToPixel(YUV2RGBSum(yuv, k), tie[k])]

---------------------------------------------------------------------------
(* The inputs the specifications draw from *)

Pixel3(a, b, c) == [k \in 0..2 |-> IF k = 0 THEN a ELSE IF k = 1 THEN b ELSE c]

\* NumSamples values spread over 0..PIXMAX, both ends included
Samples == { (i * PIXMAX) \div (NumSamples - 1) : i \in 0..(NumSamples - 1) }

\* pixels next to the grid: near black, exact rounding ties of either
\* conversion, a primary colour
ExtraPixels ==
    { Pixel3(0, 1, 20), Pixel3(16, 120, 193), Pixel3(205, 172, 182),
      Pixel3(31, 58, 158), Pixel3(232, 0, 186), Pixel3(16, 128, 128),
      Pixel3(235, 128, 128), Pixel3(81, 90, 240), Pixel3(1, 1, 1) }

PixelInputs == { Pixel3(a, b, c) : a \in Samples, b \in Samples, c \in Samples }
                   \cup ExtraPixels

\* the content of test images: all samples of one image differ
Pat8(seed, p, y, x) == ((x + 5 * y + 25 * p + 75 * seed) * 37 + 11) % (PIXMAX + 1)

TestImage8(colorSpace, width, height, seed) ==
    [CreateImage(colorSpace, width, height, "BPP8") EXCEPT
        !.pixArray = [p \in 0..2 |-> [y \in 0..(height - 1) |->
                        [x \in 0..(width - 1) |-> Pat8(seed, p, y, x)]]]]

\* 1.0 as a linear-light sample (DBLPIXMAX), a multiple of PIXMAX so that
\* i / 255 is exact for every 8-bit i
DBLONE == PIXMAX * 64

PatDbl(seed, p, y, x) == Pat8(seed, p, y, x) * (DBLONE \div PIXMAX)

TestImageDbl(colorSpace, width, height, seed) ==
    [CreateImage(colorSpace, width, height, "DOUBLE") EXCEPT
        !.dblPixArray = [p \in 0..2 |-> [y \in 0..(height - 1) |->
                           [x \in 0..(width - 1) |-> PatDbl(seed, p, y, x)]]]]

TestImage(colorSpace, width, height, precision, seed) ==
    IF precision = "BPP8" THEN TestImage8(colorSpace, width, height, seed)
    ELSE TestImageDbl(colorSpace, width, height, seed)

Dims == 1..MaxDim
Seeds == 0..(NumSeeds - 1)

---------------------------------------------------------------------------
(* SpecEdge: HandleEdgeCase on one address *)

\* the addresses tried: around the image, and the two ends of int
Coords == (-MaxCoord..MaxCoord) \cup {INT_MIN, INT_MAX}

InitEdge ==
    /\ pc = "init"
    /\ args \in [i : Coords, imageDimMax : Dims, edgeMethod : EdgeMethod]
    /\ ret = 0
    /\ imageIn = NoImage /\ imageOut = NoImage
    /\ pixel = NoPixel /\ rgbPixel = NoPixel /\ yuvPixel = NoPixel
    /\ contribs = NoTable
    /\ imageInLinear = NoImage /\ imageOutLinear = NoImage
    /\ imageTmp = NoImage

CallHandleEdgeCase ==
    /\ pc = "init"
    /\ \E ub \in UBOutcomes :
         ret' = HandleEdgeCase(args.i, args.imageDimMax, args.edgeMethod, ub)
    /\ pc' = "HandleEdgeCase"
    /\ UNCHANGED <<imageTmp, args, imageIn, imageOut, pixel, rgbPixel, yuvPixel, contribs,
                   imageInLinear, imageOutLinear>>

NextEdge == CallHandleEdgeCase

SpecEdge == InitEdge /\ [][NextEdge]_vars

\* C2: under REPEAT and under MIRROR, HandleEdgeCase returns an index of
\* [0, dim-1] for every address, negative, in range or far past the far edge.
C2_EdgeIndexInRange ==
    (pc = "HandleEdgeCase" /\ args.edgeMethod \in {"REPEAT", "MIRROR"})
        => (ret >= 0 /\ ret <= args.imageDimMax - 1)

\* an address whose mirror image is still outside the image
C2_Witness ==
    /\ pc = "HandleEdgeCase"
    /\ args.edgeMethod = "MIRROR"
    /\ args.i >= 2 * args.imageDimMax
    /\ args.i < INT_MAX
    /\ ret = 0

---------------------------------------------------------------------------
(* SpecGet: reads of an 8-bit image *)

ReadCoords == -MaxCoord..MaxCoord

InitGet ==
    /\ pc = "init"
    /\ args = NoArgs
    /\ ret = FALSE
    /\ imageIn \in { TestImage8(cs, w, h, seed) :
                       cs \in ColorSpaces, w \in Dims, h \in Dims, seed \in Seeds }
    /\ imageOut = NoImage
    /\ pixel = NoPixel /\ rgbPixel = NoPixel /\ yuvPixel = NoPixel
    /\ contribs = NoTable
    /\ imageInLinear = NoImage /\ imageOutLinear = NoImage
    /\ imageTmp = NoImage

CallGetPixel ==
    /\ pc = "init"
    /\ \E y \in ReadCoords, x \in ReadCoords, em \in EdgeMethod :
         LET r == GetPixel(imageIn, y, x, em)
         IN  /\ args' = [y |-> y, x |-> x, edgeMethod |-> em, plane |-> 0]
             /\ ret' = r.ret
             /\ pixel' = r.pixel
    /\ pc' = "GetPixel"
    /\ UNCHANGED <<imageTmp, imageIn, imageOut, rgbPixel, yuvPixel, contribs,
                   imageInLinear, imageOutLinear>>

CallGetSubPixel ==
    /\ pc = "init"
    /\ \E y \in ReadCoords, x \in ReadCoords, em \in EdgeMethod, plane \in 0..2 :
         /\ args' = [y |-> y, x |-> x, edgeMethod |-> em, plane |-> plane]
         /\ pixel' = [k \in {plane} |-> GetSubPixel(imageIn, y, x, em, plane)]
    /\ ret' = TRUE
    /\ pc' = "GetSubPixel"
    /\ UNCHANGED <<imageTmp, imageIn, imageOut, rgbPixel, yuvPixel, contribs,
                   imageInLinear, imageOutLinear>>

NextGet == CallGetPixel \/ CallGetSubPixel

SpecGet == InitGet /\ [][NextGet]_vars

\* C3: a read at coordinate -1 returns under MIRROR what the read at +1
\* returns under MIRROR, and under REPEAT what the read at 0 returns, along
\* either axis and for every image dimension.
C3_MinusOneReads ==
    /\ (pc = "GetPixel" /\ args.edgeMethod = "MIRROR" /\ args.x = -1)
          => pixel = GetPixel(imageIn, args.y, 1, "MIRROR").pixel
    /\ (pc = "GetPixel" /\ args.edgeMethod = "MIRROR" /\ args.y = -1)
          => pixel = GetPixel(imageIn, 1, args.x, "MIRROR").pixel
    /\ (pc = "GetPixel" /\ args.edgeMethod = "REPEAT" /\ args.x = -1)
          => pixel = GetPixel(imageIn, args.y, 0, "REPEAT").pixel
    /\ (pc = "GetPixel" /\ args.edgeMethod = "REPEAT" /\ args.y = -1)
          => pixel = GetPixel(imageIn, 0, args.x, "REPEAT").pixel
    /\ (pc = "GetSubPixel" /\ args.edgeMethod = "MIRROR" /\ args.x = -1)
          => pixel[args.plane] = GetSubPixel(imageIn, args.y, 1, "MIRROR", args.plane)
    /\ (pc = "GetSubPixel" /\ args.edgeMethod = "REPEAT" /\ args.x = -1)
          => pixel[args.plane] = GetSubPixel(imageIn, args.y, 0, "REPEAT", args.plane)

\* a mirrored read at x = -1 of an image whose columns 0 and 1 differ
C3_Witness ==
    /\ pc = "GetPixel"
    /\ args.edgeMethod = "MIRROR"
    /\ args.x = -1 /\ args.y = 0
    /\ imageIn.width >= 2
    /\ imageIn.colorSpace = "RGB"
    /\ pixel[Y_PLANE] = imageIn.pixArray[Y_PLANE][0][1]
    /\ pixel[Y_PLANE] # imageIn.pixArray[Y_PLANE][0][0]

---------------------------------------------------------------------------
(* SpecPixel: RGBPixel2YUV and YUVPixel2RGB, one after the other *)

InitPixel ==
    /\ pc = "init"
    /\ \E p \in PixelInputs :
         \/ /\ args = [start |-> "RGB", orig |-> p]
            /\ rgbPixel = p
            /\ yuvPixel = NoPixel
         \/ /\ args = [start |-> "YUV", orig |-> p]
            /\ yuvPixel = p
            /\ rgbPixel = NoPixel
    /\ ret = 0
    /\ imageIn = NoImage /\ imageOut = NoImage
    /\ pixel = NoPixel
    /\ contribs = NoTable
    /\ imageInLinear = NoImage /\ imageOutLinear = NoImage
    /\ imageTmp = NoImage

CallRGBPixel2YUV ==
    /\ \/ pc = "init" /\ args.start = "RGB"
       \/ pc = "YUVPixel2RGB" /\ args.start = "YUV"
    /\ \E tie \in Ties : yuvPixel' = RGBPixel2YUV(rgbPixel, tie)
    /\ pc' = "RGBPixel2YUV"
    /\ UNCHANGED <<imageTmp, args, ret, imageIn, imageOut, pixel, rgbPixel, contribs,
                   imageInLinear, imageOutLinear>>

CallYUVPixel2RGB ==
    /\ \/ pc = "init" /\ args.start = "YUV"
       \/ pc = "RGBPixel2YUV" /\ args.start = "RGB"
    /\ \E tie \in Ties : rgbPixel' = YUVPixel2RGB(yuvPixel, tie)
    /\ pc' = "YUVPixel2RGB"
    /\ UNCHANGED <<imageTmp, args, ret, imageIn, imageOut, pixel, yuvPixel, contribs,
                   imageInLinear, imageOutLinear>>

NextPixel == CallRGBPixel2YUV \/ CallYUVPixel2RGB

SpecPixel == InitPixel /\ [][NextPixel]_vars

\* every channel of pixel p is within d of the same channel of q
Within(p, q, d) == \A k \in 0..2 : Abs(p[k] - q[k]) <= d

RoundTripRGB == args.start = "RGB" /\ pc = "YUVPixel2RGB"
RoundTripYUV == args.start = "YUV" /\ pc = "RGBPixel2YUV"

\* C4 as claimed: RGB -> YUV444 -> RGB returns every channel within 1 of the
\* original, for every 8-bit pixel.
C4_RGBRoundTripWithin1 == RoundTripRGB => Within(rgbPixel, args.orig, 1)

\* C4 as amended: RGB -> YUV444 -> RGB returns every channel within 2 of the
\* original, for every 8-bit pixel.
C4_RGBRoundTripWithin2 == RoundTripRGB => Within(rgbPixel, args.orig, 2)

\* a round trip that ends two off
C4_Witness ==
    /\ RoundTripRGB
    /\ \E k \in 0..2 : Abs(rgbPixel[k] - args.orig[k]) = 2

\* YUVPixel2RGB clamps no channel of yuv: each value + 0.5 lies in [0, PIXMAX]
NoClampToRGB(yuv) ==
    \A k \in 0..2 : YUV2RGBSum(yuv, k) >= 0 /\ YUV2RGBSum(yuv, k) <= PIXMAX * MatDen

\* C5 as claimed: YUV444 -> RGB -> YUV444 returns every channel within 1 of
\* the original, for every 8-bit pixel.
C5_YUVRoundTripWithin1 == RoundTripYUV => Within(yuvPixel, args.orig, 1)

\* C5 as amended: YUV444 -> RGB -> YUV444 returns every channel within 1 of
\* the original, for every 8-bit YUV pixel of which YUVPixel2RGB clamps no
\* channel.
C5_YUVRoundTripUnclamped ==
    (RoundTripYUV /\ NoClampToRGB(args.orig)) => Within(yuvPixel, args.orig, 1)

\* a round trip of a coloured pixel inside the RGB gamut
C5_Witness ==
    /\ RoundTripYUV
    /\ NoClampToRGB(args.orig)
    /\ args.orig[U_PLANE] # args.orig[V_PLANE]
    /\ Within(yuvPixel, args.orig, 1)

---------------------------------------------------------------------------
(* SpecSet: writes to an 8-bit image *)

\* the coordinates written to: the image and two samples around it
WriteCoords == -2..(MaxDim + 1)

\* the pixels written
WritePixels == { Pixel3(1, 2, 3), Pixel3(PIXMAX, PIXMAX - 1, PIXMAX - 2) }

InitSet ==
    /\ pc = "init"
    /\ args = NoArgs
    /\ ret = 0
    /\ imageIn = NoImage
    /\ imageOut \in { TestImage8(cs, w, h, seed) :
                        cs \in ColorSpaces, w \in Dims, h \in Dims, seed \in Seeds }
    /\ pixel = NoPixel /\ rgbPixel = NoPixel /\ yuvPixel = NoPixel
    /\ contribs = NoTable
    /\ imageInLinear = NoImage /\ imageOutLinear = NoImage
    /\ imageTmp = NoImage

CallSetPixel ==
    /\ pc = "init"
    /\ \E y \in WriteCoords, x \in WriteCoords, pix \in WritePixels :
         /\ args' = [y |-> y, x |-> x, plane |-> 0]
         /\ pixel' = pix
         /\ imageOut' = SetPixel(imageOut, y, x, pix)
    /\ pc' = "SetPixel"
    /\ UNCHANGED <<imageTmp, ret, imageIn, rgbPixel, yuvPixel, contribs,
                   imageInLinear, imageOutLinear>>

CallSetSubPixel ==
    /\ pc = "init"
    /\ \E y \in WriteCoords, x \in WriteCoords, plane \in 0..2, pix \in WritePixels :
         /\ args' = [y |-> y, x |-> x, plane |-> plane]
         /\ pixel' = pix
         /\ imageOut' = SetSubPixel(imageOut, y, x, plane, pix[plane])
    /\ pc' = "SetSubPixel"
    /\ UNCHANGED <<imageTmp, ret, imageIn, rgbPixel, yuvPixel, contribs,
                   imageInLinear, imageOutLinear>>

NextSet == CallSetPixel \/ CallSetSubPixel

SpecSet == InitSet /\ [][NextSet]_vars

\* (x, y) is no sample position of pImage
OutOfImage(pImage, y, x) == x < 0 \/ y < 0 \/ x >= pImage.width \/ y >= pImage.height

\* C10: SetPixel and SetSubPixel with a coordinate outside the image change
\* no sample of any plane and no field of the image.
C10_OutsideWritesChangeNothing ==
    [][ (pc' \in {"SetPixel", "SetSubPixel"} /\ OutOfImage(imageOut, args'.y, args'.x))
           => imageOut' = imageOut ]_vars

\* a write one past the last column of the first row has returned
C10_Witness ==
    /\ pc \in {"SetPixel", "SetSubPixel"}
    /\ args.y = 0
    /\ args.x = imageOut.width
    /\ imageOut.width >= 2
    /\ pixel[args.plane] # imageOut.pixArray[args.plane][0][0]

---------------------------------------------------------------------------
(* Image conversion: RGBImage2YUV, YUVImage2RGB, ConvertImage *)

\* a loop body applied to the elements of s in order, acc being the state
RECURSIVE FoldSeq(_, _, _)
FoldSeq(Op(_, _), acc, s) ==
    IF s = << >> THEN acc ELSE FoldSeq(Op, Op(acc, Head(s)), Tail(s))

\* the <<y, x>> of  for (y = 0; y < h; y += yinc) for (x = 0; x < w; x += xinc)
Loop(h, w, yinc, xinc) ==
    LET ny == (h + yinc - 1) \div yinc
        nx == (w + xinc - 1) \div xinc
    IN  [n \in 1..(ny * nx) |-> << ((n - 1) \div nx) * yinc, ((n - 1) % nx) * xinc >>]

\* the 4:2:2 chroma sample without the rounding term
Chroma422_NoRound(tempImage, y, x, plane) ==
    CDiv(GetSubPixel(tempImage, y, x - 1, "REPEAT", plane)
         + 2 * GetSubPixel(tempImage, y, x, "REPEAT", plane)
         + GetSubPixel(tempImage, y, x + 1, "REPEAT", plane), 4)

\* the 4:2:2 chroma sample of column x: RGBImage2YUV, case YUV422
Chroma422(tempImage, y, x, plane) ==
    CDiv(GetSubPixel(tempImage, y, x - 1, "REPEAT", plane)
         + 2 * GetSubPixel(tempImage, y, x, "REPEAT", plane)
         + GetSubPixel(tempImage, y, x + 1, "REPEAT", plane) + 2, 4)

\* the 4:2:0 chroma sample that leaves out the lower row of the block
Chroma420_UpperRow(tempImage, y, x, plane) ==
    CDiv(2 * GetSubPixel(tempImage, y, x, "REPEAT", plane)
         + 2 * GetSubPixel(tempImage, y, x + 1, "REPEAT", plane) + 2, 4)

\* the 4:2:0 chroma sample of the block at (y, x): RGBImage2YUV, case YUV420
Chroma420(tempImage, y, x, plane) ==
    CDiv(GetSubPixel(tempImage, y, x, "REPEAT", plane)
         + GetSubPixel(tempImage, y, x + 1, "REPEAT", plane)
         + GetSubPixel(tempImage, y + 1, x, "REPEAT", plane)
         + GetSubPixel(tempImage, y + 1, x + 1, "REPEAT", plane) + 2, 4)

IsYUV(colorSpace) == colorSpace \in {"YUV444", "YUV422", "YUV420"}

\* RGBImage2YUV(pImageIn, pImageOut): [ret, out]
RGBImage2YUV(pImageIn, pImageOut, tie) ==
    IF ~IsYUV(pImageOut.colorSpace) THEN [ret |-> FALSE, out |-> pImageOut]
    ELSE IF pImageIn.precision # "BPP8" \/ pImageOut.precision # "BPP8"
    THEN [ret |-> FALSE, out |-> pImageOut]
    ELSE
    LET h == pImageOut.height
        w == pImageOut.width
        \* GetPixel, RGBPixel2YUV, SetPixel of one pixel
        Conv(img, yx) ==
            SetPixel(img, yx[1], yx[2],
                     RGBPixel2YUV(GetPixel(pImageIn, yx[1], yx[2], "REPEAT").pixel, tie))
        tempImage == FoldSeq(Conv, CreateImage("YUV444", w, h, "BPP8"), Loop(h, w, 1, 1))
        Luma(y, x) == GetSubPixel(tempImage, y, x, "REPEAT", Y_PLANE)
        Down422(img, yx) ==
            LET y == yx[1]
                x == yx[2]
                cosited == SetPixel(img, y, x,
                              Pixel3(Luma(y, x), Chroma422(tempImage, y, x, U_PLANE),
                                     Chroma422(tempImage, y, x, V_PLANE)))
            IN  SetSubPixel(cosited, y, x + 1, Y_PLANE, Luma(y, x + 1))
        Down420(img, yx) ==
            LET y == yx[1]
                x == yx[2]
                cosited == SetPixel(img, y, x,
                              Pixel3(Luma(y, x), Chroma420(tempImage, y, x, U_PLANE),
                                     Chroma420(tempImage, y, x, V_PLANE)))
                right == SetSubPixel(cosited, y, x + 1, Y_PLANE, Luma(y, x + 1))
                below == SetSubPixel(right, y + 1, x, Y_PLANE, Luma(y + 1, x))
            IN  SetSubPixel(below, y + 1, x + 1, Y_PLANE, Luma(y + 1, x + 1))
    IN  [ret |-> TRUE,
         out |-> CASE pImageOut.colorSpace = "YUV444" ->
                        FoldSeq(Conv, pImageOut, Loop(h, w, 1, 1))
                   [] pImageOut.colorSpace = "YUV422" ->
                        FoldSeq(Down422, pImageOut, Loop(h, w, 1, 2))
                   [] pImageOut.colorSpace = "YUV420" ->
                        FoldSeq(Down420, pImageOut, Loop(h, w, 2, 2))]

\* YUVImage2RGB(pImageIn, pImageOut): [ret, out]
YUVImage2RGB(pImageIn, pImageOut, tie) ==
    IF ~IsYUV(pImageIn.colorSpace) THEN [ret |-> FALSE, out |-> pImageOut]
    ELSE IF pImageIn.precision # "BPP8" \/ pImageOut.precision # "BPP8"
    THEN [ret |-> FALSE, out |-> pImageOut]
    ELSE
    LET h == pImageOut.height
        w == pImageOut.width
        \* GetPixel, YUVPixel2RGB, SetPixel of the pixel at (y, x)
        One(img, y, x) ==
            SetPixel(img, y, x, YUVPixel2RGB(GetPixel(pImageIn, y, x, "REPEAT").pixel, tie))
        Conv444(img, yx) == One(img, yx[1], yx[2])
        Conv422(img, yx) == One(One(img, yx[1], yx[2]), yx[1], yx[2] + 1)
        Conv420(img, yx) ==
            One(One(One(One(img, yx[1], yx[2]), yx[1], yx[2] + 1),
                    yx[1] + 1, yx[2]), yx[1] + 1, yx[2] + 1)
    IN  [ret |-> TRUE,
         out |-> CASE pImageIn.colorSpace = "YUV444" ->
                        FoldSeq(Conv444, pImageOut, Loop(h, w, 1, 1))
                   [] pImageIn.colorSpace = "YUV422" ->
                        FoldSeq(Conv422, pImageOut, Loop(h, w, 1, 2))
                   [] pImageIn.colorSpace = "YUV420" ->
                        FoldSeq(Conv420, pImageOut, Loop(h, w, 2, 2))]

\* ConvertImage that copies whenever no conversion applies
ConvertImage_CopyAcrossFormats(pImageIn, pImageOut, tie) ==
    IF pImageIn.width # pImageOut.width \/ pImageIn.height # pImageOut.height
    THEN [ret |-> FALSE, out |-> pImageOut]
    ELSE IF pImageIn.colorSpace = "RGB" /\ IsYUV(pImageOut.colorSpace)
    THEN RGBImage2YUV(pImageIn, pImageOut, tie)
    ELSE IF IsYUV(pImageIn.colorSpace) /\ pImageOut.colorSpace = "RGB"
    THEN YUVImage2RGB(pImageIn, pImageOut, tie)
    ELSE CopyImage(pImageIn, pImageOut)

\* ConvertImage(pImageIn, pImageOut): [ret, out]
ConvertImage(pImageIn, pImageOut, tie) ==
    IF pImageIn.width # pImageOut.width \/ pImageIn.height # pImageOut.height
    THEN [ret |-> FALSE, out |-> pImageOut]
    ELSE IF pImageIn.colorSpace = "RGB" /\ IsYUV(pImageOut.colorSpace)
    THEN RGBImage2YUV(pImageIn, pImageOut, tie)
    ELSE IF IsYUV(pImageIn.colorSpace) /\ pImageOut.colorSpace = "RGB"
    THEN YUVImage2RGB(pImageIn, pImageOut, tie)
    ELSE IF pImageIn.colorSpace = pImageOut.colorSpace
    THEN CopyImage(pImageIn, pImageOut)
    ELSE [ret |-> FALSE, out |-> pImageOut]

---------------------------------------------------------------------------
(* SpecConvert: ConvertImage of a test image into an image that holds an    *)
(* earlier frame                                                            *)

\* one outcome for all pixels of an image: no sum falls below, or all do
ImageTies == { [k \in 0..2 |-> t] : t \in {0, 1} }

InitConvert ==
    /\ pc = "init"
    /\ args = NoArgs
    /\ ret = FALSE
    /\ \E w \in Dims, h \in Dims :
         /\ imageIn \in { TestImage(cs, w, h, prec, seed) :
                            cs \in ColorSpaces, prec \in PixelPrecision, seed \in Seeds }
         /\ imageOut \in { TestImage(cs, wo, ho, prec, NumSeeds) :
                             cs \in ColorSpaces, prec \in PixelPrecision,
                             wo \in {w, w + 1}, ho \in {h, h + 1} }
    /\ pixel = NoPixel /\ rgbPixel = NoPixel /\ yuvPixel = NoPixel
    /\ contribs = NoTable
    /\ imageInLinear = NoImage /\ imageOutLinear = NoImage
    /\ imageTmp = NoImage

CallConvertImage ==
    /\ pc = "init"
    /\ \E tie \in ImageTies :
         LET r == ConvertImage(imageIn, imageOut, tie)
         IN  /\ ret' = r.ret
             /\ imageOut' = r.out
             /\ args' = [tie |-> tie, outColorSpace |-> imageOut.colorSpace]
    /\ pc' = "ConvertImage"
    /\ UNCHANGED <<imageTmp, imageIn, pixel, rgbPixel, yuvPixel, contribs,
                   imageInLinear, imageOutLinear>>

NextConvert == CallConvertImage

SpecConvert == InitConvert /\ [][NextConvert]_vars

\* the full-resolution YUV444 sample of plane p at (y, x) of the RGB imageIn,
\* coordinates past the edge clamped (REPEAT)
Full444(y, x, p) ==
    RGBPixel2YUV([k \in 0..2 |->
                    imageIn.pixArray[k][CLAMP(y, 0, imageIn.height - 1)]
                                       [CLAMP(x, 0, imageIn.width - 1)]],
                 args.tie)[p]

ConvertedTo(colorSpace) ==
    /\ pc = "ConvertImage"
    /\ ret = TRUE
    /\ imageIn.colorSpace = "RGB"
    /\ args.outColorSpace = colorSpace

\* C8: RGB to YUV420 stores, for every 2x2 luma block, the chroma sample
\* (a + b + c + d + 2) div 4 of the block's four full-resolution chroma
\* samples, and copies the luma samples unfiltered.
C8_Chroma420IsBlockAverage ==
    ConvertedTo("YUV420") =>
        /\ \A y \in 0..(imageIn.height - 1), x \in 0..(imageIn.width - 1) :
             (y % 2 = 0 /\ x % 2 = 0) =>
                \A p \in {U_PLANE, V_PLANE} :
                   imageOut.pixArray[p][y \div 2][x \div 2]
                      = (Full444(y, x, p) + Full444(y, x + 1, p)
                         + Full444(y + 1, x, p) + Full444(y + 1, x + 1, p) + 2) \div 4
        /\ \A y \in 0..(imageIn.height - 1), x \in 0..(imageIn.width - 1) :
             imageOut.pixArray[Y_PLANE][y][x] = Full444(y, x, Y_PLANE)

\* a converted image with a whole block and a block cut by both far edges,
\* whose four chroma samples are not all equal
C8_Witness ==
    /\ ConvertedTo("YUV420")
    /\ imageIn.width = 3 /\ imageIn.height = 3
    /\ Full444(0, 0, U_PLANE) # Full444(1, 1, U_PLANE)
    /\ imageOut.pixArray[U_PLANE][1][1] = Full444(2, 2, U_PLANE)

\* C9: RGB to YUV422 stores, for every row y and even column x, the chroma
\* sample (c[x-1] + 2 c[x] + c[x+1] + 2) div 4 of the row's full-resolution
\* chroma, x-1 and x+1 clamped into the row, and copies the luma unfiltered.
C9_Chroma422IsWeightedAverage ==
    ConvertedTo("YUV422") =>
        /\ \A y \in 0..(imageIn.height - 1), x \in 0..(imageIn.width - 1) :
             (x % 2 = 0) =>
                \A p \in {U_PLANE, V_PLANE} :
                   imageOut.pixArray[p][y][x \div 2]
                      = (Full444(y, x - 1, p) + 2 * Full444(y, x, p)
                         + Full444(y, x + 1, p) + 2) \div 4
        /\ \A y \in 0..(imageIn.height - 1), x \in 0..(imageIn.width - 1) :
             imageOut.pixArray[Y_PLANE][y][x] = Full444(y, x, Y_PLANE)

\* a converted row of three columns: both stored samples have a clamped
\* neighbour, and the chroma of the row is not constant
C9_Witness ==
    /\ ConvertedTo("YUV422")
    /\ imageIn.width = 3
    /\ Full444(0, 0, U_PLANE) # Full444(0, 1, U_PLANE)
    /\ imageOut.pixArray[U_PLANE][0][1]
          = (Full444(0, 1, U_PLANE) + 3 * Full444(0, 2, U_PLANE) + 2) \div 4

---------------------------------------------------------------------------
(* The Lanczos-2 kernel.  A position t is the fraction n/d of two integers, *)
(* a weight is a fixed-point number of unit 1/ONE.                          *)

\* 1.0 as a filter weight
ONE == 10 * 1000

\* pi, EPSILON = 1/EPSILON_DEN and the number of lobes, from ImageResize.cpp
M_PI == 31416
EPSILON_DEN == 80000
LANCZOS2_NUMTAPS == 2

\* a / b rounded to the nearest integer, b > 0
RDiv(a, b) == (2 * a + b) \div (2 * b)

\* fabs(x) < EPSILON for a fixed-point x
BelowEpsilon(x) == Abs(x) < ONE /\ Abs(x) * EPSILON_DEN < ONE

\* sin(x) for a fixed-point x of [0, pi/2]: the series up to x^11
SinSeries(x) ==
    LET x2 == RDiv(x * x, ONE)
        h5 == ONE - RDiv(x2, 110)
        h4 == ONE - RDiv(x2 * h5, 72 * ONE)
        h3 == ONE - RDiv(x2 * h4, 42 * ONE)
        h2 == ONE - RDiv(x2 * h3, 20 * ONE)
        h1 == ONE - RDiv(x2 * h2, 6 * ONE)
    IN  RDiv(x * h1, ONE)

\* sin(pi * n / d), d > 0: the argument reduced to [0, pi/2] by the
\* symmetries of the sine
SinPi(n, d) ==
    LET m    == n % (2 * d)
        sign == IF m >= d THEN -1 ELSE 1
        m1   == IF m >= d THEN m - d ELSE m
        m2   == IF 2 * m1 > d THEN d - m1 ELSE m1
    IN  sign * SinSeries(RDiv(M_PI * m2, d))

\* sinc(n/d), n >= 0
sinc(n, d) ==
    LET x == RDiv(M_PI * n, d)
    IN  IF BelowEpsilon(x)
        THEN LET x2 == RDiv(x * x, ONE)
             IN  ONE + RDiv(x2 * (RDiv(x2, 120) - RDiv(ONE, 6)), ONE)
        ELSE LET sn == SinPi(n, d)
             IN  IF sn >= 0 THEN RDiv(sn * ONE, x) ELSE -RDiv((-sn) * ONE, x)

fabsThresh(x) == IF BelowEpsilon(x) THEN 0 ELSE x

\* lanczos2Filter without the test of the support
lanczos2Filter_NoSupport(n, d) ==
    LET t  == Abs(n)
        s1 == sinc(t, d)
        s2 == sinc(t, LANCZOS2_NUMTAPS * d)
        pr == s1 * s2
    IN  fabsThresh(IF pr >= 0 THEN RDiv(pr, ONE) ELSE -RDiv(-pr, ONE))

\* lanczos2Filter(n/d)
lanczos2Filter(n, d) ==
    LET t  == Abs(n)
        s1 == sinc(t, d)
        s2 == sinc(t, LANCZOS2_NUMTAPS * d)
        pr == s1 * s2
    IN  IF t < LANCZOS2_NUMTAPS * d
        THEN fabsThresh(IF pr >= 0 THEN RDiv(pr, ONE) ELSE -RDiv(-pr, ONE))
        ELSE 0

---------------------------------------------------------------------------
(* Contribution tables.  With scaleRatio = out / in the centre of output    *)
(* index i is ((2i+1) * in - out) / (2 * out); the half support is          *)
(* 2 when enlarging and 2 * in / out otherwise.  All positions are kept as  *)
(* numerators over the denominator 2 * out.  A row of the table is the      *)
(* sequence of its entries: entry k of the code is element k + 1.           *)

Ceil(a, b) == -((-a) \div b)

CenterNum(i, inDimSize, outDimSize) == (2 * i + 1) * inDimSize - outDimSize

HalfTapsNum(inDimSize, outDimSize) ==
    IF outDimSize > inDimSize
    THEN 2 * LANCZOS2_NUMTAPS * outDimSize
    ELSE 2 * LANCZOS2_NUMTAPS * inDimSize

\* (int) (2 * scaledHalfTaps)
MaxTaps_NoPlusOne(inDimSize, outDimSize) ==
    HalfTapsNum(inDimSize, outDimSize) \div outDimSize

\* (int) (2 * scaledHalfTaps + 1)
MaxTaps(inDimSize, outDimSize) ==
    (HalfTapsNum(inDimSize, outDimSize) \div outDimSize) + 1

\* lanczos2Filter((center - j) * filterScale)
TapWeight(i, j, inDimSize, outDimSize) ==
    lanczos2Filter(CenterNum(i, inDimSize, outDimSize) - 2 * j * outDimSize,
                   IF outDimSize > inDimSize THEN 2 * outDimSize
                                             ELSE 2 * inDimSize)

EmptyRow ==
    [filterWeights |-> << >>, contribPixPos |-> << >>,
     numContribPixels |-> 0, weightsSum |-> 0]

\* the loop body below, storing the last weight in place of the running sum
AddTap_LastWeight(row, i, j, inDimSize, outDimSize, edgeMethod) ==
    LET weight == TapWeight(i, j, inDimSize, outDimSize)
    IN  IF edgeMethod = "NOCONTRIB" /\ (j < 0 \/ j > inDimSize) THEN row
        ELSE IF weight = 0 THEN row
        ELSE [filterWeights    |-> Append(row.filterWeights, weight),
              contribPixPos    |-> Append(row.contribPixPos,
                                     HandleEdgeCase(j, inDimSize, edgeMethod, NoUB)),
              numContribPixels |-> row.numContribPixels + 1,
              weightsSum       |-> weight]

\* the loop body below, NOCONTRIB dropping the first and the last source
\* index as well
AddTap_DropEdges(row, i, j, inDimSize, outDimSize, edgeMethod) ==
    LET weight == TapWeight(i, j, inDimSize, outDimSize)
    IN  IF edgeMethod = "NOCONTRIB" /\ (j <= 0 \/ j >= inDimSize - 1) THEN row
        ELSE IF weight = 0 THEN row
        ELSE [filterWeights    |-> Append(row.filterWeights, weight),
              contribPixPos    |-> Append(row.contribPixPos,
                                     HandleEdgeCase(j, inDimSize, edgeMethod, NoUB)),
              numContribPixels |-> row.numContribPixels + 1,
              weightsSum       |-> row.weightsSum + weight]

\* one turn of the loop over the candidate source indices j
AddTap(row, i, j, inDimSize, outDimSize, edgeMethod) ==
    LET weight == TapWeight(i, j, inDimSize, outDimSize)
    IN  IF edgeMethod = "NOCONTRIB" /\ (j < 0 \/ j > inDimSize) THEN row
        ELSE IF weight = 0 THEN row
        ELSE [filterWeights    |-> Append(row.filterWeights, weight),
              contribPixPos    |-> Append(row.contribPixPos,
                                     HandleEdgeCase(j, inDimSize, edgeMethod, NoUB)),
              numContribPixels |-> row.numContribPixels + 1,
              weightsSum       |-> row.weightsSum + weight]

\* the row of output index i
ContribRow(i, inDimSize, outDimSize, edgeMethod) ==
    LET cn    == CenterNum(i, inDimSize, outDimSize)
        hn    == HalfTapsNum(inDimSize, outDimSize)
        left  == (cn - hn) \div (2 * outDimSize)
        right == Ceil(cn + hn, 2 * outDimSize)
        js    == [k \in 1..(right - left + 1) |-> left + k - 1]
        Step(row, j) == AddTap(row, i, j, inDimSize, outDimSize, edgeMethod)
    IN  FoldSeq(Step, EmptyRow, js)

\* the table of a successful MakeContribTable, inDimSize >= 1; maxTaps is
\* the length of the rows that were allocated
MakeContribTable(inDimSize, outDimSize, edgeMethod) ==
    Let([i \in 0..(outDimSize - 1) |->
            ContribRow(i, inDimSize, outDimSize, edgeMethod)],
        LAMBDA rows :
        [maxTaps          |-> MaxTaps(inDimSize, outDimSize),
         filterWeights    |-> [i \in 0..(outDimSize - 1) |-> rows[i].filterWeights],
         contribPixPos    |-> [i \in 0..(outDimSize - 1) |-> rows[i].contribPixPos],
         numContribPixels |-> [i \in 0..(outDimSize - 1) |-> rows[i].numContribPixels],
         weightsSum       |-> [i \in 0..(outDimSize - 1) |-> rows[i].weightsSum]])

---------------------------------------------------------------------------
(* The two filter passes and ResizeImage *)

\* the quotient the double division of the code gives when it is not a
\* number: a value that no quotient of the model takes
NaN == INT_MIN

\* a / b for two doubles, to the nearest unit; x/0 is an infinity, which
\* CLAMP brings to an end of [0, 1], and 0/0 is not a number
DblDiv(a, b) ==
    IF b = 0 THEN (IF a > 0 THEN DBLONE + 1 ELSE IF a < 0 THEN -1 ELSE NaN)
    ELSE LET q == (Abs(a) + (Abs(b) \div 2)) \div Abs(b)
         IN  IF (a < 0) = (b < 0) THEN q ELSE -q

\* CLAMP(tmpResult, 0, 1.0); every comparison with a NaN is false
ClampDbl(x) == IF x = NaN THEN NaN ELSE CLAMP(x, 0, DBLONE)

\* the weighted sum of the contributors of entry i, pix(pos) being the sample
\* at source position pos
WeightedSum(contribsY, i, pix(_)) ==
    LET Tap(acc, k) ==
            acc + contribsY.filterWeights[i][k + 1] * pix(contribsY.contribPixPos[i][k + 1])
    IN  FoldSeq(Tap, 0, [k \in 1..contribsY.numContribPixels[i] |-> k - 1])

\* Filter1DHorz that leaves out the division by weightsSum
Filter1DHorz_NoDivide(pImageIn, x, y, plane, contribsY) ==
    LET Pix(pos) == pImageIn.dblPixArray[plane][y][pos]
    IN  Let(WeightedSum(contribsY, x, Pix), LAMBDA tmpResult :
            Let(DblDiv(tmpResult, ONE), LAMBDA quotient : ClampDbl(quotient)))

\* Filter1DHorz that stores the quotient as it is
Filter1DHorz_NoClamp(pImageIn, x, y, plane, contribsY) ==
    LET Pix(pos) == pImageIn.dblPixArray[plane][y][pos]
    IN  Let(WeightedSum(contribsY, x, Pix), LAMBDA tmpResult :
            DblDiv(tmpResult, contribsY.weightsSum[x]))

\* Filter1DHorz: the sample it stores in pImageOut->dblPixArray[plane][y][x]
Filter1DHorz(pImageIn, x, y, plane, contribsY) ==
    LET Pix(pos) == pImageIn.dblPixArray[plane][y][pos]
    IN  Let(WeightedSum(contribsY, x, Pix), LAMBDA tmpResult :
            Let(DblDiv(tmpResult, contribsY.weightsSum[x]),
                LAMBDA quotient : ClampDbl(quotient)))

\* Filter1DVert: the sample it stores in pImageOut->dblPixArray[plane][y][x]
Filter1DVert(pImageIn, x, y, plane, contribsY) ==
    LET Pix(pos) == pImageIn.dblPixArray[plane][pos][x]
    IN  Let(WeightedSum(contribsY, y, Pix), LAMBDA tmpResult :
            Let(DblDiv(tmpResult, contribsY.weightsSum[y]),
                LAMBDA quotient : ClampDbl(quotient)))

\* the horizontal pass of ResizeImage: imageTmp after the loops over the
\* Y/R plane and over the UVwidth x UVheight corner of the two other planes
\* (no sample that is written depends on one written before)
HorzPass(pImageIn, pImageTmp, outWidth, xinc, yinc, contribsY, contribsUV) ==
    LET UVwidth  == outWidth \div xinc
        UVheight == pImageIn.height \div yinc
    IN  [pImageTmp EXCEPT !.dblPixArray =
            [plane \in 0..2 |-> [y \in 0..(pImageIn.height - 1) |->
                [x \in 0..(outWidth - 1) |->
                    IF plane = Y_PLANE
                    THEN Filter1DHorz(pImageIn, x, y, plane, contribsY)
                    ELSE IF y < UVheight /\ x < UVwidth
                    THEN Filter1DHorz(pImageIn, x, y, plane, contribsUV)
                    ELSE pImageTmp.dblPixArray[plane][y][x]]]]]

\* the vertical pass of ResizeImage: *pImageOut after its loops
VertPass(pImageTmp, pImageOut, xinc, yinc, contribsY, contribsUV) ==
    LET UVwidth  == pImageOut.width \div xinc
        UVheight == pImageOut.height \div yinc
    IN  [pImageOut EXCEPT !.dblPixArray =
            [plane \in 0..2 |-> [y \in 0..(pImageOut.height - 1) |->
                [x \in 0..(pImageOut.width - 1) |->
                    IF plane = Y_PLANE
                    THEN Filter1DVert(pImageTmp, x, y, plane, contribsY)
                    ELSE IF y < UVheight /\ x < UVwidth
                    THEN Filter1DVert(pImageTmp, x, y, plane, contribsUV)
                    ELSE pImageOut.dblPixArray[plane][y][x]]]]]

\* ResizeImage(pImageIn, pImageOut, edgeMethod) when every allocation
\* succeeds: [ret, out, fault].  fault: the filters went through a null
\* dblPixArray (an image that is not DOUBLE), the call does not return.
ResizeImage(pImageIn, pImageOut, edgeMethod) ==
    IF pImageIn.width = pImageOut.width /\ pImageIn.height = pImageOut.height
    THEN [ret |-> TRUE, out |-> CopyImage(pImageIn, pImageOut).out, fault |-> FALSE]
    ELSE IF pImageIn.dblPixArray = NULL
    THEN [ret |-> FALSE, out |-> pImageOut, fault |-> TRUE]
    ELSE
    LET cs   == pImageIn.colorSpace
        xinc == IF cs \in {"YUV420", "YUV422"} THEN 2 ELSE 1
        yinc == IF cs = "YUV420" THEN 2 ELSE 1
        \* from "Vertical scaling" to the end
        Vertical(pImageTmp) ==
            IF pImageIn.height = pImageOut.height
            THEN [ret |-> TRUE, out |-> CopyImage(pImageTmp, pImageOut).out,
                  fault |-> FALSE]
            ELSE IF pImageOut.dblPixArray = NULL
            THEN [ret |-> FALSE, out |-> pImageOut, fault |-> TRUE]
            ELSE
            Let(MakeContribTable(pImageIn.height, pImageOut.height, edgeMethod),
                LAMBDA contribsY :
            Let(IF cs = "YUV420"
                THEN MakeContribTable(pImageIn.height \div 2, pImageOut.height \div 2,
                                      edgeMethod)
                ELSE contribsY,
                LAMBDA contribsUV :
                [ret |-> TRUE,
                 out |-> VertPass(pImageTmp, pImageOut, xinc, yinc, contribsY, contribsUV),
                 fault |-> FALSE]))
    IN  Let(MakeContribTable(pImageIn.width, pImageOut.width, edgeMethod),
            LAMBDA contribsY :
        Let(IF cs \in {"YUV420", "YUV422"}
            THEN MakeContribTable(pImageIn.width \div 2, pImageOut.width \div 2,
                                  edgeMethod)
            ELSE contribsY,
            LAMBDA contribsUV :
        Let(HorzPass(pImageIn,
                     CreateImage(cs, pImageOut.width, pImageIn.height, "DOUBLE"),
                     pImageOut.width, xinc, yinc, contribsY, contribsUV),
            LAMBDA pImageTmp : Vertical(pImageTmp))))

---------------------------------------------------------------------------
(* Gamma: the two lookup tables main builds, for gamma 1.0, and the two     *)
(* routines that apply them                                                 *)

\* fwdGamma[i] = pow(i / PIXMAX, 1.0)
fwdGamma == [i \in 0..(FWD_GAMMA_LUTSIZE - 1) |-> i * (DBLONE \div PIXMAX)]

\* bwdGamma[i] = (PIXEL) CLAMP(PIXMAX * pow(i / BWD_GAMMA_LUTSIZE, 1.0) + 0.5, 0, PIXMAX)
bwdGamma ==
    [i \in 0..(BWD_GAMMA_LUTSIZE - 1) |->
        CLAMP((2 * PIXMAX * i + BWD_GAMMA_LUTSIZE) \div (2 * BWD_GAMMA_LUTSIZE), 0, PIXMAX)]

\* (int) CLAMP(d * scale + 0.5, 0, scale) for a linear-light sample d
Quantize(d, scale) ==
    CLAMP((2 * d * scale + DBLONE) \div (2 * DBLONE), 0, scale)

\* DegammaImage without the test of the colour spaces
DegammaImage_NoColorSpaceTest(pImageIn, pImageOut, fwd) ==
    IF pImageIn.width # pImageOut.width \/ pImageIn.height # pImageOut.height
    THEN [ret |-> FALSE, out |-> pImageOut]
    ELSE IF pImageIn.pixArray = NULL THEN [ret |-> FALSE, out |-> pImageOut]
    ELSE IF pImageOut.dblPixArray = NULL THEN [ret |-> FALSE, out |-> pImageOut]
    ELSE
    LET Lin(plane, y, x) ==
            LET pixval == CLAMP(pImageIn.pixArray[plane][y][x], 0, FWD_GAMMA_LUTSIZE - 1)
            IN  IF pImageIn.colorSpace = "RGB" \/ plane = Y_PLANE
                THEN fwd[pixval]
                ELSE pixval * (DBLONE \div (FWD_GAMMA_LUTSIZE - 1))
    IN  [ret |-> TRUE,
         out |-> [pImageOut EXCEPT !.dblPixArray =
                    [plane \in 0..2 |-> [y \in 0..(pImageIn.height - 1) |->
                        [x \in 0..(pImageIn.width - 1) |-> Lin(plane, y, x)]]]]]

\* DegammaImage(pImageIn, pImageOut, fwd): [ret, out]
DegammaImage(pImageIn, pImageOut, fwd) ==
    IF pImageIn.width # pImageOut.width \/ pImageIn.height # pImageOut.height
    THEN [ret |-> FALSE, out |-> pImageOut]
    ELSE IF pImageIn.pixArray = NULL THEN [ret |-> FALSE, out |-> pImageOut]
    ELSE IF pImageOut.dblPixArray = NULL THEN [ret |-> FALSE, out |-> pImageOut]
    ELSE IF pImageIn.colorSpace # pImageOut.colorSpace
    THEN [ret |-> FALSE, out |-> pImageOut]
    ELSE
    LET Lin(plane, y, x) ==
            LET pixval == CLAMP(pImageIn.pixArray[plane][y][x], 0, FWD_GAMMA_LUTSIZE - 1)
            IN  IF pImageIn.colorSpace = "RGB" \/ plane = Y_PLANE
                THEN fwd[pixval]
                ELSE pixval * (DBLONE \div (FWD_GAMMA_LUTSIZE - 1))
    IN  [ret |-> TRUE,
         out |-> [pImageOut EXCEPT !.dblPixArray =
                    [plane \in 0..2 |-> [y \in 0..(pImageIn.height - 1) |->
                        [x \in 0..(pImageIn.width - 1) |-> Lin(plane, y, x)]]]]]

\* GammaImage indexing the backward table with a sample quantized to the
\* 8-bit range
GammaImage_ByteIndex(pImageIn, pImageOut, bwd) ==
    IF pImageIn.width # pImageOut.width \/ pImageIn.height # pImageOut.height
    THEN [ret |-> FALSE, out |-> pImageOut]
    ELSE IF pImageIn.dblPixArray = NULL THEN [ret |-> FALSE, out |-> pImageOut]
    ELSE IF pImageOut.pixArray = NULL THEN [ret |-> FALSE, out |-> pImageOut]
    ELSE IF pImageIn.colorSpace # pImageOut.colorSpace
    THEN [ret |-> FALSE, out |-> pImageOut]
    ELSE
    LET Enc(plane, y, x) ==
            IF pImageIn.colorSpace = "RGB" \/ plane = Y_PLANE
            THEN bwd[Quantize(pImageIn.dblPixArray[plane][y][x], FWD_GAMMA_LUTSIZE - 1)]
            ELSE Quantize(pImageIn.dblPixArray[plane][y][x], FWD_GAMMA_LUTSIZE - 1)
    IN  [ret |-> TRUE,
         out |-> [pImageOut EXCEPT !.pixArray =
                    [plane \in 0..2 |-> [y \in 0..(pImageIn.height - 1) |->
                        [x \in 0..(pImageIn.width - 1) |-> Enc(plane, y, x)]]]]]

\* GammaImage(pImageIn, pImageOut, bwd): [ret, out]
GammaImage(pImageIn, pImageOut, bwd) ==
    IF pImageIn.width # pImageOut.width \/ pImageIn.height # pImageOut.height
    THEN [ret |-> FALSE, out |-> pImageOut]
    ELSE IF pImageIn.dblPixArray = NULL THEN [ret |-> FALSE, out |-> pImageOut]
    ELSE IF pImageOut.pixArray = NULL THEN [ret |-> FALSE, out |-> pImageOut]
    ELSE IF pImageIn.colorSpace # pImageOut.colorSpace
    THEN [ret |-> FALSE, out |-> pImageOut]
    ELSE
    LET Enc(plane, y, x) ==
            IF pImageIn.colorSpace = "RGB" \/ plane = Y_PLANE
            THEN bwd[Quantize(pImageIn.dblPixArray[plane][y][x], BWD_GAMMA_LUTSIZE - 1)]
            ELSE Quantize(pImageIn.dblPixArray[plane][y][x], FWD_GAMMA_LUTSIZE - 1)
    IN  [ret |-> TRUE,
         out |-> [pImageOut EXCEPT !.pixArray =
                    [plane \in 0..2 |-> [y \in 0..(pImageIn.height - 1) |->
                        [x \in 0..(pImageIn.width - 1) |-> Enc(plane, y, x)]]]]]

---------------------------------------------------------------------------
(* SpecContrib: MakeContribTable for one pair of sizes and one edge policy  *)

RECURSIVE SumSeq(_)
SumSeq(s) == IF s = << >> THEN 0 ELSE Head(s) + SumSeq(Tail(s))

InitContrib ==
    /\ pc = "init"
    /\ args \in [inDimSize : 1..MaxTab, outDimSize : 1..MaxTab, edgeMethod : EdgeMethod]
    /\ ret = FALSE
    /\ imageIn = NoImage /\ imageOut = NoImage
    /\ pixel = NoPixel /\ rgbPixel = NoPixel /\ yuvPixel = NoPixel
    /\ contribs = NoTable
    /\ imageInLinear = NoImage /\ imageOutLinear = NoImage
    /\ imageTmp = NoImage

\* MakeContribTable; when one of its four allocations fails it destroys the
\* table and returns FALSE
CallMakeContribTable ==
    /\ pc = "init"
    /\ \E allocated \in BOOLEAN :
          /\ ret' = allocated
          /\ contribs' = IF allocated
                         THEN MakeContribTable(args.inDimSize, args.outDimSize,
                                               args.edgeMethod)
                         ELSE NoTable
    /\ pc' = "MakeContribTable"
    /\ UNCHANGED <<imageTmp, args, imageIn, imageOut, pixel, rgbPixel, yuvPixel,
                   imageInLinear, imageOutLinear>>

NextContrib == CallMakeContribTable

SpecContrib == InitContrib /\ [][NextContrib]_vars

\* C6: in every table MakeContribTable has built, for every output index i,
\* weightsSum[i] is the sum of the numContribPixels[i] weights stored in
\* filterWeights[i]
C6_WeightsSumIsSumOfWeights ==
    (pc = "MakeContribTable" /\ ret = TRUE) =>
        \A i \in 0..(args.outDimSize - 1) :
            /\ Len(contribs.filterWeights[i]) = contribs.numContribPixels[i]
            /\ contribs.weightsSum[i] = SumSeq(contribs.filterWeights[i])

\* a table with a row of several weights whose sum is not 1.0
C6_Witness ==
    /\ pc = "MakeContribTable" /\ ret = TRUE
    /\ \E i \in 0..(args.outDimSize - 1) :
          /\ contribs.numContribPixels[i] >= 3
          /\ contribs.weightsSum[i] # ONE
          /\ contribs.weightsSum[i] # contribs.filterWeights[i][contribs.numContribPixels[i]]

---------------------------------------------------------------------------
(* SpecResize: ResizeImage of a test image into an image that holds an      *)
(* earlier frame.  The chroma planes of a subsampled image are not empty.   *)

HasChroma(colorSpace, width, height) ==
    /\ colorSpace \in {"YUV422", "YUV420"} => width >= 2
    /\ colorSpace = "YUV420" => height >= 2

InitResize ==
    /\ pc = "init"
    /\ args = NoArgs
    /\ ret = FALSE
    /\ \E cs \in ColorSpaces, w \in Dims, h \in Dims, prec \in PixelPrecision, seed \in Seeds :
          /\ HasChroma(cs, w, h)
          /\ imageIn = TestImage(cs, w, h, prec, seed)
    /\ \E cs \in {imageIn.colorSpace, "RGB", "YUV420"}, w \in Dims, h \in Dims,
          prec \in PixelPrecision :
          /\ HasChroma(imageIn.colorSpace, w, h)
          /\ imageOut = TestImage(cs, w, h, prec, NumSeeds)
    /\ pixel = NoPixel /\ rgbPixel = NoPixel /\ yuvPixel = NoPixel
    /\ contribs = NoTable
    /\ imageInLinear = NoImage /\ imageOutLinear = NoImage
    /\ imageTmp = NoImage

CallResizeImage ==
    /\ pc = "init"
    /\ \E edgeMethod \in EdgeMethod :
          \E r \in {ResizeImage(imageIn, imageOut, edgeMethod)} :
              /\ pc' = IF r.fault THEN "fault" ELSE "ResizeImage"
              /\ args' = [edgeMethod |-> edgeMethod]
              /\ ret' = r.ret
              /\ imageOut' = r.out
    /\ UNCHANGED <<imageTmp, imageIn, pixel, rgbPixel, yuvPixel, contribs,
                   imageInLinear, imageOutLinear>>

NextResize == CallResizeImage

SpecResize == InitResize /\ [][NextResize]_vars

SameSize(a, b) == a.width = b.width /\ a.height = b.height

\* C1: ResizeImage of a double-precision image into a double-precision image
\* of the same width and height returns TRUE and leaves the three planes of
\* the output equal to those of the input, whatever the edge policy
C1_SameSizeIsExactCopy ==
    (/\ pc = "ResizeImage"
     /\ SameSize(imageIn, imageOut)
     /\ imageIn.precision = "DOUBLE" /\ imageOut.precision = "DOUBLE") =>
        /\ ret = TRUE
        /\ \A p \in 0..2 : imageOut.dblPixArray[p] = imageIn.dblPixArray[p]

\* a copy under MIRROR of an image of several columns and planes that differ
C1_Witness ==
    /\ pc = "ResizeImage" /\ ret = TRUE
    /\ args.edgeMethod = "MIRROR"
    /\ SameSize(imageIn, imageOut) /\ imageIn.width >= 2 /\ imageIn.height >= 2
    /\ imageIn.precision = "DOUBLE" /\ imageOut.precision = "DOUBLE"
    /\ imageOut.dblPixArray[V_PLANE][1][1] # imageOut.dblPixArray[Y_PLANE][1][1]
    /\ imageOut.dblPixArray[V_PLANE][1][1] # 0

---------------------------------------------------------------------------
(* SpecPipeline: what main does with one frame it has loaded, gamma being   *)
(* 1.0: DegammaImage, ResizeImage, GammaImage, each after the success of    *)
(* the one before.                                                          *)

\* solid colour k
Colour(k) == [p \in 0..2 |-> (k * 37 + 11 + 85 * p) % (PIXMAX + 1)]

UniformImage(colorSpace, width, height, colour) ==
    [CreateImage(colorSpace, width, height, "BPP8") EXCEPT
        !.pixArray = [p \in 0..2 |-> [y \in 0..(height - 1) |->
                        [x \in 0..(width - 1) |-> colour[p]]]]]

IsUniform(image) ==
    \A p \in 0..2, y \in 0..(image.height - 1), x \in 0..(image.width - 1) :
        image.pixArray[p][y][x] = image.pixArray[p][0][0]

\* the four images main allocates, the first one loaded with a frame
InitPipeline ==
    /\ pc = "loaded"
    /\ args \in [edgeMethod : EdgeMethod]
    /\ ret = TRUE
    /\ \E cs \in {"RGB", "YUV420"}, w \in 1..MaxInDim, h \in 1..MaxInDim,
          wo \in 1..MaxOutDim, ho \in 1..MaxOutDim :
          /\ HasChroma(cs, w, h) /\ HasChroma(cs, wo, ho)
          /\ \/ \E k \in 0..(NumColours - 1) : imageIn = UniformImage(cs, w, h, Colour(k))
             \/ \E seed \in Seeds : imageIn = TestImage8(cs, w, h, seed)
          /\ imageOut = CreateImage(cs, wo, ho, "BPP8")
          /\ imageInLinear = CreateImage(cs, w, h, "DOUBLE")
          /\ imageOutLinear = CreateImage(cs, wo, ho, "DOUBLE")
    /\ pixel = NoPixel /\ rgbPixel = NoPixel /\ yuvPixel = NoPixel
    /\ contribs = NoTable /\ imageTmp = NoImage

DegammaStage ==
    /\ pc = "loaded"
    /\ \E r \in {DegammaImage(imageIn, imageInLinear, fwdGamma)} :
           /\ imageInLinear' = r.out
           /\ ret' = r.ret
           /\ pc' = IF r.ret THEN "DegammaImage" ELSE "exit"
    /\ UNCHANGED <<imageTmp, args, imageIn, imageOut, pixel, rgbPixel, yuvPixel, contribs,
                   imageOutLinear>>

ResizeStage ==
    /\ pc = "DegammaImage"
    /\ \E r \in {ResizeImage(imageInLinear, imageOutLinear, args.edgeMethod)} :
           /\ imageOutLinear' = r.out
           /\ ret' = r.ret
           /\ pc' = IF r.fault THEN "fault" ELSE IF r.ret THEN "ResizeImage" ELSE "exit"
    /\ UNCHANGED <<imageTmp, args, imageIn, imageOut, pixel, rgbPixel, yuvPixel, contribs,
                   imageInLinear>>

GammaStage ==
    /\ pc = "ResizeImage"
    /\ \E r \in {GammaImage(imageOutLinear, imageOut, bwdGamma)} :
           /\ imageOut' = r.out
           /\ ret' = r.ret
           /\ pc' = IF r.ret THEN "GammaImage" ELSE "exit"
    /\ UNCHANGED <<imageTmp, args, imageIn, pixel, rgbPixel, yuvPixel, contribs,
                   imageInLinear, imageOutLinear>>

NextPipeline == DegammaStage \/ ResizeStage \/ GammaStage

SpecPipeline == InitPipeline /\ [][NextPipeline]_vars

\* C7: a solid-colour RGB image taken through DegammaImage, ResizeImage and
\* GammaImage with gamma 1.0 comes out, whatever the two sizes and the edge
\* policy (2x2 to 4x4 under REPEAT among them), with every sample within 1
\* of the colour's, and every resampled linear sample equal to the linear
\* sample of the colour
C7_UniformStaysUniform ==
    (pc = "GammaImage" /\ imageIn.colorSpace = "RGB" /\ IsUniform(imageIn)) =>
        \A p \in 0..2, y \in 0..(imageOut.height - 1), x \in 0..(imageOut.width - 1) :
            /\ Abs(imageOut.pixArray[p][y][x] - imageIn.pixArray[p][0][0]) <= 1
            /\ imageOutLinear.dblPixArray[p][y][x] = imageInLinear.dblPixArray[p][0][0]

\* the case of the text: 2x2 to 4x4 under REPEAT, a colour that is not black
C7_Witness ==
    /\ pc = "GammaImage"
    /\ imageIn.colorSpace = "RGB" /\ IsUniform(imageIn)
    /\ imageIn.width = 2 /\ imageIn.height = 2
    /\ imageOut.width = 4 /\ imageOut.height = 4
    /\ args.edgeMethod = "REPEAT"
    /\ imageIn.pixArray[R_PLANE][0][0] > 100
    /\ imageOut.pixArray[R_PLANE][3][3] > 99

---------------------------------------------------------------------------
(* SpecGamma: DegammaImage or GammaImage, with the tables of gamma 1.0, of  *)
(* a test image into an image that holds an earlier frame                   *)

InitGamma ==
    /\ pc = "init"
    /\ args = NoArgs
    /\ ret = FALSE
    /\ \E cs \in ColorSpaces, w \in Dims, h \in Dims, prec \in PixelPrecision, seed \in Seeds :
          imageIn = TestImage(cs, w, h, prec, seed)
    /\ \E cs \in {imageIn.colorSpace, "RGB", "YUV420"}, w \in Dims, h \in Dims,
          prec \in PixelPrecision :
          imageOut = TestImage(cs, w, h, prec, NumSeeds)
    /\ pixel = NoPixel /\ rgbPixel = NoPixel /\ yuvPixel = NoPixel
    /\ contribs = NoTable
    /\ imageInLinear = NoImage /\ imageOutLinear = NoImage
    /\ imageTmp = NoImage

CallDegammaImage ==
    /\ pc = "init"
    /\ \E r \in {DegammaImage(imageIn, imageOut, fwdGamma)} :
           /\ ret' = r.ret
           /\ imageOut' = r.out
    /\ pc' = "DegammaImage"
    /\ UNCHANGED <<imageTmp, args, imageIn, pixel, rgbPixel, yuvPixel, contribs,
                   imageInLinear, imageOutLinear>>

CallGammaImage ==
    /\ pc = "init"
    /\ \E r \in {GammaImage(imageIn, imageOut, bwdGamma)} :
           /\ ret' = r.ret
           /\ imageOut' = r.out
    /\ pc' = "GammaImage"
    /\ UNCHANGED <<imageTmp, args, imageIn, pixel, rgbPixel, yuvPixel, contribs,
                   imageInLinear, imageOutLinear>>

NextGamma == CallDegammaImage \/ CallGammaImage

SpecGamma == InitGamma /\ [][NextGamma]_vars

\* the pair differs in width, in height or in colour space, or the input is
\* not stored with precision inPrecision, or the output not with outPrecision
GammaMismatch(pImageIn, pImageOut, inPrecision, outPrecision) ==
    \/ pImageIn.width # pImageOut.width
    \/ pImageIn.height # pImageOut.height
    \/ pImageIn.colorSpace # pImageOut.colorSpace
    \/ pImageIn.precision # inPrecision
    \/ pImageOut.precision # outPrecision

\* C11: a call of DegammaImage on a pair of images that differ in width,
\* height or colour space, or that are not 8-bit in and double out, returns
\* FALSE and leaves every field and sample of the output image as it was;
\* so does a call of GammaImage on a pair that differs or is not double in
\* and 8-bit out
C11_GammaRefusesMismatch ==
    [][(\/ pc' = "DegammaImage" /\ GammaMismatch(imageIn, imageOut, "BPP8", "DOUBLE")
        \/ pc' = "GammaImage" /\ GammaMismatch(imageIn, imageOut, "DOUBLE", "BPP8"))
       => (ret' = FALSE /\ imageOut' = imageOut)]_vars

\* DegammaImage has refused a pair that differs in colour space only, the
\* output holding samples that a conversion would have replaced
C11_Witness ==
    /\ pc = "DegammaImage" /\ ret = FALSE
    /\ SameSize(imageIn, imageOut)
    /\ imageIn.precision = "BPP8" /\ imageOut.precision = "DOUBLE"
    /\ imageIn.colorSpace # imageOut.colorSpace
    /\ imageIn.width >= 2
    /\ imageOut.dblPixArray[Y_PLANE][0][1] # fwdGamma[imageIn.pixArray[Y_PLANE][0][1]]

---------------------------------------------------------------------------
(* ResizeImage on pairs of images it should refuse (SpecResize) *)

\* the pair differs in colour space or one of the two is not double precision
ResizeMismatch(pImageIn, pImageOut) ==
    \/ pImageIn.colorSpace # pImageOut.colorSpace
    \/ pImageIn.precision # "DOUBLE"
    \/ pImageOut.precision # "DOUBLE"

\* C12: a call of ResizeImage on a pair of images that differ in colour
\* space, or that are not both double precision, returns FALSE and leaves
\* the samples, the colour space and the precision of the output image as
\* they were, whether the dimensions are equal or differ
C12_ResizeRefusesMismatch ==
    [][(pc = "init" /\ pc' # "init" /\ ResizeMismatch(imageIn, imageOut))
       => (pc' = "ResizeImage" /\ ret' = FALSE /\ imageOut' = imageOut)]_vars

---------------------------------------------------------------------------
(* Image files: LoadBmpImage, LoadRawYUVImage.  A file is given by the      *)
(* bytes of its pixel data; the step at which a call gives up (the file     *)
(* cannot be opened or read, a buffer cannot be allocated) is an input.     *)

YUVType == {"NO_SUBTYPE", "YUV420_I420", "YUV420_YV12", "YUV420_NV12", "YUV420_NV21"}
BPP_YUV420 == 12

\* byte n of the pixel data of file number seed
FileByte(seed, n) == ((n + 75 * seed) * 37 + 11) % (PIXMAX + 1)

\* DestroyImage(pImage): both arrays are freed, the two pointers keep their
\* values
DestroyImage(pImage) == pImage

\* where LoadBmpImage can give up
BmpStages == {"header", "alloc", "data", "ok"}

\* LoadBmpImage(fileName, pImage): [ret, out].  file: [width, height,
\* topDown, seed], topDown for a negative bitmapHeight.
LoadBmpImage(file, pImage, stage, tie) ==
    IF stage = "header" THEN [ret |-> FALSE, out |-> pImage]
    ELSE
    LET width  == file.width
        height == file.height
        realloc == pImage.height # height \/ pImage.width # width
                   \/ pImage.precision # "BPP8"
        destroyed == DestroyImage(pImage)
        sized == IF realloc
                 THEN [destroyed EXCEPT !.pixArray = Alloc3DArray(3, height, width),
                                        !.height = height, !.width = width,
                                        !.precision = "BPP8"]
                 ELSE pImage
        padBytes == (4 - ((width * 3) % 4)) % 4
        vFlip == ~file.topDown
        \* the pixel that starts at byte 3 * x of row r of the data
        Store(img, rx) ==
            LET at == rx[1] * (width * 3 + padBytes) + 3 * rx[2]
                y  == IF vFlip THEN height - 1 - rx[1] ELSE rx[1]
            IN  SetPixel(img, y, rx[2],
                         Pixel3(FileByte(file.seed, at + 2), FileByte(file.seed, at + 1),
                                FileByte(file.seed, at)))
    IN  IF realloc /\ stage = "alloc"
        THEN [ret |-> FALSE, out |-> [destroyed EXCEPT !.pixArray = NULL]]
        ELSE IF stage = "data" THEN [ret |-> FALSE, out |-> sized]
        ELSE
        Let(FoldSeq(Store, sized, Loop(height, width, 1, 1)), LAMBDA loaded :
            IF loaded.colorSpace = "RGB" THEN [ret |-> TRUE, out |-> loaded]
            ELSE
            Let(CopyImage(loaded, CreateImage(loaded.colorSpace, width, height, "BPP8")),
                LAMBDA copied :
                IF ~copied.ret THEN [ret |-> FALSE, out |-> loaded]
                ELSE ConvertImage([copied.out EXCEPT !.colorSpace = "RGB"], loaded, tie)))

\* where LoadRawYUVImage can give up
RawStages == {"open", "ydata", "uvdata", "ok"}

\* LoadRawYUVImage(fileName, pImage, subFrame, fileSubtype): [ret, out, fault].
\* fault: the samples were stored through a null pixArray.  past: the value
\* of the bytes read past the end of the chroma buffer, which has
\* width * height / 2 bytes while the loops read a sample per 2x2 block,
\* started or complete, and plane.
LoadRawYUVImage(seed, pImage, subFrame, fileSubtype, stage, past, tie) ==
    LET inputColorSpace == pImage.colorSpace
        w == pImage.width
        h == pImage.height
        yuv == IF inputColorSpace = "RGB" THEN [pImage EXCEPT !.colorSpace = "YUV420"]
               ELSE pImage
        seekLocation == CDiv(BPP_YUV420 * w * h * subFrame, 8)
        bufSize == w * h
        uvSize == bufSize \div 2
        StoreY(img, yx) ==
            SetSubPixel(img, yx[1], yx[2], Y_PLANE,
                        FileByte(seed, seekLocation + yx[1] * w + yx[2]))
        blocks == Loop(h, w, 2, 2)
        planar == fileSubtype \in {"YUV420_I420", "YUV420_YV12"}
        plane1 == IF fileSubtype \in {"YUV420_I420", "YUV420_NV12"} THEN U_PLANE ELSE V_PLANE
        plane2 == IF plane1 = U_PLANE THEN V_PLANE ELSE U_PLANE
        \* byte k of the chroma buffer
        Chroma(k) == IF k < uvSize THEN FileByte(seed, seekLocation + bufSize + k)
                     ELSE past
        StoreUV(img) ==
            [img EXCEPT !.pixArray =
                [p \in 0..2 |-> [y \in 0..(h - 1) |-> [x \in 0..(w - 1) |->
                    LET cw == (w + 1) \div 2
                        n  == y * cw + x
                        k  == IF planar
                              THEN (IF p = plane1 THEN n ELSE Len(blocks) + n)
                              ELSE (IF p = plane1 THEN 2 * n ELSE 2 * n + 1)
                    IN  IF p # Y_PLANE /\ y < (h + 1) \div 2 /\ x < cw
                        THEN Chroma(k)
                        ELSE img.pixArray[p][y][x]]]]]
    IN  IF inputColorSpace \notin {"RGB", "YUV420"}
        THEN [ret |-> FALSE, out |-> pImage, fault |-> FALSE]
        ELSE IF stage \in {"open", "ydata"}
        THEN [ret |-> FALSE, out |-> yuv, fault |-> FALSE]
        ELSE IF pImage.pixArray = NULL
        THEN [ret |-> FALSE, out |-> yuv, fault |-> TRUE]
        ELSE
        Let(FoldSeq(StoreY, yuv, Loop(h, w, 1, 1)), LAMBDA luma :
            IF stage = "uvdata" \/ uvSize = 0 \/ fileSubtype = "NO_SUBTYPE"
            THEN [ret |-> FALSE, out |-> luma, fault |-> FALSE]
            ELSE
            Let(StoreUV(luma), LAMBDA loaded :
                IF inputColorSpace # "RGB"
                THEN [ret |-> TRUE, out |-> loaded, fault |-> FALSE]
                ELSE
                Let(CopyImage(loaded, CreateImage(inputColorSpace, w, h, "BPP8")),
                    LAMBDA copied :
                    IF ~copied.ret
                    THEN [ret |-> FALSE, out |-> loaded, fault |-> FALSE]
                    ELSE
                    Let(ConvertImage(copied.out, [loaded EXCEPT !.colorSpace = "RGB"], tie),
                        LAMBDA converted :
                        [ret |-> converted.ret, out |-> converted.out,
                         fault |-> FALSE]))))

---------------------------------------------------------------------------
(* SpecImages: two images made by CreateImage; a frame is loaded into the   *)
(* first one from a bitmap or a raw YUV file, and the first one is copied   *)
(* or converted into the second one.                                        *)

InitImages ==
    /\ pc = "created"
    /\ args = NoArgs
    /\ ret = TRUE
    /\ \E cs \in ColorSpaces, w \in Dims, h \in Dims, prec \in PixelPrecision :
          imageIn = CreateImage(cs, w, h, prec)
    /\ \E cs \in {imageIn.colorSpace, "RGB"}, prec \in PixelPrecision,
          transposed \in BOOLEAN :
          imageOut = CreateImage(cs, IF transposed THEN imageIn.height ELSE imageIn.width,
                                 IF transposed THEN imageIn.width ELSE imageIn.height, prec)
    /\ pixel = NoPixel /\ rgbPixel = NoPixel /\ yuvPixel = NoPixel
    /\ contribs = NoTable
    /\ imageInLinear = NoImage /\ imageOutLinear = NoImage
    /\ imageTmp = NoImage

\* LoadBmpImage(fileName, &imageIn), the file as large as the image or not
CallLoadBmpImage ==
    /\ pc = "created"
    /\ \E width \in {imageIn.width, MaxDim}, height \in {imageIn.height, 1},
          topDown \in BOOLEAN, seed \in Seeds, stage \in BmpStages :
          \E tie \in IF stage = "ok" THEN ImageTies ELSE {[k \in 0..2 |-> 0]} :
          \E r \in {LoadBmpImage([width |-> width, height |-> height,
                                  topDown |-> topDown, seed |-> seed],
                                 imageIn, stage, tie)} :
              /\ imageIn' = r.out
              /\ ret' = r.ret
              /\ pc' = IF r.ret THEN "loaded" ELSE "failed"
              /\ args' = [file |-> "bmp", width |-> width, height |-> height,
                          stage |-> stage]
    /\ UNCHANGED <<imageTmp, imageOut, pixel, rgbPixel, yuvPixel, contribs,
                   imageInLinear, imageOutLinear>>

\* LoadRawYUVImage(fileName, &imageIn, subFrame, fileSubtype)
CallLoadRawYUVImage ==
    /\ pc = "created"
    /\ \E seed \in Seeds, subFrame \in {0, 1}, fileSubtype \in YUVType,
          stage \in RawStages, past \in {0, PIXMAX} :
          \E tie \in IF stage = "ok" THEN ImageTies ELSE {[k \in 0..2 |-> 0]} :
          \E r \in {LoadRawYUVImage(seed, imageIn, subFrame, fileSubtype, stage,
                                    past, tie)} :
              /\ imageIn' = r.out
              /\ ret' = r.ret
              /\ pc' = IF r.fault THEN "fault" ELSE IF r.ret THEN "loaded" ELSE "failed"
              /\ args' = [file |-> "yuv", width |-> imageIn.width,
                          height |-> imageIn.height, stage |-> stage]
    /\ UNCHANGED <<imageTmp, imageOut, pixel, rgbPixel, yuvPixel, contribs,
                   imageInLinear, imageOutLinear>>

\* CopyImage passes its two tests on the double arrays and then copies the
\* 8-bit array of the input into the null 8-bit array of the output
CopyStoresThroughNull(pImageIn, pImageOut) ==
    /\ pImageIn.width = pImageOut.width /\ pImageIn.height = pImageOut.height
    /\ pImageIn.pixArray # NULL /\ pImageOut.pixArray = NULL
    /\ pImageIn.dblPixArray # NULL /\ pImageOut.dblPixArray # NULL

\* CopyImage(&imageIn, &imageOut)
CallCopyImage ==
    /\ pc \in {"created", "loaded"}
    /\ \E r \in {CopyImage(imageIn, imageOut)} :
          IF CopyStoresThroughNull(imageIn, imageOut)
          THEN pc' = "fault" /\ UNCHANGED <<imageTmp, ret, imageOut>>
          ELSE pc' = "CopyImage" /\ ret' = r.ret /\ imageOut' = r.out
    /\ UNCHANGED <<imageTmp, args, imageIn, pixel, rgbPixel, yuvPixel, contribs,
                   imageInLinear, imageOutLinear>>

\* ConvertImage(&imageIn, &imageOut)
CallConvertImageOfLoaded ==
    /\ pc \in {"created", "loaded"}
    /\ \E tie \in ImageTies :
          \E r \in {ConvertImage(imageIn, imageOut, tie)} :
              IF /\ imageIn.colorSpace = imageOut.colorSpace
                 /\ CopyStoresThroughNull(imageIn, imageOut)
              THEN pc' = "fault" /\ UNCHANGED <<imageTmp, ret, imageOut>>
              ELSE pc' = "ConvertImage" /\ ret' = r.ret /\ imageOut' = r.out
    /\ UNCHANGED <<imageTmp, args, imageIn, pixel, rgbPixel, yuvPixel, contribs,
                   imageInLinear, imageOutLinear>>

NextImages ==
    \/ CallLoadBmpImage
    \/ CallLoadRawYUVImage
    \/ CallCopyImage
    \/ CallConvertImageOfLoaded

SpecImages == InitImages /\ [][NextImages]_vars

\* exactly one of the two arrays is there, the one the precision field names
OneArrayByPrecision(image) ==
    /\ image.precision = "BPP8" => (image.pixArray # NULL /\ image.dblPixArray = NULL)
    /\ image.precision = "DOUBLE" => (image.dblPixArray # NULL /\ image.pixArray = NULL)

\* C13: in every state reached through CreateImage, LoadBmpImage (its
\* re-allocation included), LoadRawYUVImage, CopyImage and ConvertImage each
\* of the two images has exactly one of pixArray and dblPixArray populated,
\* the one its precision field selects.  Stated of the states in which no
\* call has given up: a call that returns FALSE is left out.
C13_OneArrayByPrecision ==
    pc \in {"created", "loaded", "CopyImage", "ConvertImage"} =>
        OneArrayByPrecision(imageIn) /\ OneArrayByPrecision(imageOut)

---------------------------------------------------------------------------
(* SpecRoundTrip: DegammaImage and then GammaImage, with the tables of      *)
(* gamma 1.0, of an 8-bit image whose first sample takes every value        *)

\* an 8-bit image whose sample (plane 0, row 0, column 0) is v
RampImage(colorSpace, width, height, v) ==
    [CreateImage(colorSpace, width, height, "BPP8") EXCEPT
        !.pixArray = [p \in 0..2 |-> [y \in 0..(height - 1) |->
                        [x \in 0..(width - 1) |->
                            (v + 85 * p + 31 * (y + 2 * x)) % (PIXMAX + 1)]]]]

InitRoundTrip ==
    /\ pc = "loaded"
    /\ args = NoArgs
    /\ ret = TRUE
    /\ \E cs \in {"RGB", "YUV444"}, w \in {1, MaxInDim}, h \in {1, MaxInDim},
          v \in 0..PIXMAX :
          /\ imageIn = RampImage(cs, w, h, v)
          /\ imageInLinear = CreateImage(cs, w, h, "DOUBLE")
          /\ imageOut = CreateImage(cs, w, h, "BPP8")
    /\ imageOutLinear = NoImage /\ imageTmp = NoImage
    /\ pixel = NoPixel /\ rgbPixel = NoPixel /\ yuvPixel = NoPixel
    /\ contribs = NoTable

RoundTripDegamma ==
    /\ pc = "loaded"
    /\ \E r \in {DegammaImage(imageIn, imageInLinear, fwdGamma)} :
           /\ imageInLinear' = r.out
           /\ ret' = r.ret
           /\ pc' = IF r.ret THEN "DegammaImage" ELSE "exit"
    /\ UNCHANGED <<imageTmp, args, imageIn, imageOut, pixel, rgbPixel, yuvPixel, contribs,
                   imageOutLinear>>

RoundTripGamma ==
    /\ pc = "DegammaImage"
    /\ \E r \in {GammaImage(imageInLinear, imageOut, bwdGamma)} :
           /\ imageOut' = r.out
           /\ ret' = r.ret
           /\ pc' = IF r.ret THEN "GammaImage" ELSE "exit"
    /\ UNCHANGED <<imageTmp, args, imageIn, pixel, rgbPixel, yuvPixel, contribs,
                   imageInLinear, imageOutLinear>>

NextRoundTrip == RoundTripDegamma \/ RoundTripGamma

SpecRoundTrip == InitRoundTrip /\ [][NextRoundTrip]_vars

\* C14: with the tables of gamma 1.0, every sample of an RGB image and every
\* luma sample of a YUV image, whatever its value in 0..255, comes back from
\* DegammaImage followed by GammaImage within 1 of what it was, both calls
\* having run: neither stops short of the end, and the linear sample in
\* between is the forward table's entry for the value
C14_GammaRoundTripWithin1 ==
    /\ pc # "exit"
    /\ pc = "GammaImage" =>
        \A p \in 0..2, y \in 0..(imageIn.height - 1), x \in 0..(imageIn.width - 1) :
            (imageIn.colorSpace = "RGB" \/ p = Y_PLANE) =>
                /\ imageInLinear.dblPixArray[p][y][x] = fwdGamma[imageIn.pixArray[p][y][x]]
                /\ Abs(imageOut.pixArray[p][y][x] - imageIn.pixArray[p][y][x]) <= 1

\* a luma sample of 200 that has made the round trip
C14_Witness ==
    /\ pc = "GammaImage"
    /\ imageIn.colorSpace = "YUV444"
    /\ imageIn.pixArray[Y_PLANE][0][0] = 200
    /\ imageInLinear.dblPixArray[Y_PLANE][0][0] > 0
    /\ imageOut.pixArray[Y_PLANE][0][0] \in 199..201

---------------------------------------------------------------------------
(* SpecLUT: one entry of the backward table main builds for gamma 1.0       *)

InitLUT ==
    /\ pc = "init"
    /\ args \in [i : 0..(BWD_GAMMA_LUTSIZE - 1)]
    /\ ret = FALSE
    /\ imageIn = NoImage /\ imageOut = NoImage
    /\ imageInLinear = NoImage /\ imageOutLinear = NoImage
    /\ imageTmp = NoImage
    /\ pixel = NoPixel /\ rgbPixel = NoPixel /\ yuvPixel = NoPixel
    /\ contribs = NoTable

\* bwdGamma[i] = ..., one turn of the loop
BuildBwdGammaEntry ==
    /\ pc = "init"
    /\ ret' = bwdGamma[args.i]
    /\ pc' = "bwdGamma"
    /\ UNCHANGED <<imageTmp, args, imageIn, imageOut, pixel, rgbPixel, yuvPixel, contribs,
                   imageInLinear, imageOutLinear>>

NextLUT == BuildBwdGammaEntry

SpecLUT == InitLUT /\ [][NextLUT]_vars

\* C15: for gamma 1.0, entry i of the backward table is
\* floor(255 * i / 4095 + 0.5) clamped to 0..255, for every i in 0..4095
C15_BwdGammaEntry ==
    pc = "bwdGamma" =>
        ret = CLAMP((2 * PIXMAX * args.i + (BWD_GAMMA_LUTSIZE - 1))
                        \div (2 * (BWD_GAMMA_LUTSIZE - 1)), 0, PIXMAX)

---------------------------------------------------------------------------
(* The command line.  An argument is a sequence of characters; numbers that *)
(* the program keeps in floating point (gamma, scaleRatio) are in           *)
(* thousandths.                                                             *)

\* enum YUVType
NO_SUBTYPE == 0
YUV420_I420 == 1
YUV420_YV12 == 2
YUV420_NV12 == 3
YUV420_NV21 == 4

\* thousandths
MILLI == 1000

DigitVal ==
    [c \in {"0", "1", "2", "3", "4", "5", "6", "7", "8", "9"} |->
        CASE c = "0" -> 0 [] c = "1" -> 1 [] c = "2" -> 2 [] c = "3" -> 3
          [] c = "4" -> 4 [] c = "5" -> 5 [] c = "6" -> 6 [] c = "7" -> 7
          [] c = "8" -> 8 [] c = "9" -> 9]

\* s[k] of the C string s, the terminating NUL being ""
CharAt(s, k) == IF k < Len(s) THEN s[k + 1] ELSE ""

tolower(c) ==
    CASE c = "G" -> "g" [] c = "H" -> "h" [] c = "R" -> "r" [] c = "W" -> "w"
      [] c = "Y" -> "y" [] OTHER -> c

\* the digits of s from position k on: <<their value after acc, the position
\* of the first character that is not a digit>>
RECURSIVE ScanDigits(_, _, _)
ScanDigits(s, k, acc) ==
    IF CharAt(s, k) \in DOMAIN DigitVal
    THEN ScanDigits(s, k + 1, acc * 10 + DigitVal[CharAt(s, k)])
    ELSE <<acc, k>>

\* the digits after the decimal point, in thousandths
RECURSIVE ScanFraction(_, _, _, _)
ScanFraction(s, k, acc, unit) ==
    IF CharAt(s, k) \in DOMAIN DigitVal /\ unit > 0
    THEN ScanFraction(s, k + 1, acc + unit * DigitVal[CharAt(s, k)], unit \div 10)
    ELSE acc

\* atoi: an optional sign and the digits that follow it, 0 when there are none
atoi(s) ==
    LET signed == CharAt(s, 0) \in {"-", "+"}
        value == ScanDigits(s, IF signed THEN 1 ELSE 0, 0)[1]
    IN  IF CharAt(s, 0) = "-" THEN 0 - value ELSE value

\* atof, in thousandths: sign, digits, and the digits after a point
atof(s) ==
    LET signed == CharAt(s, 0) \in {"-", "+"}
        whole == ScanDigits(s, IF signed THEN 1 ELSE 0, 0)
        frac == IF CharAt(s, whole[2]) = "."
                THEN ScanFraction(s, whole[2] + 1, 0, MILLI \div 10)
                ELSE 0
        value == whole[1] * MILLI + frac
    IN  IF CharAt(s, 0) = "-" THEN 0 - value ELSE value

\* the defaults main sets before it calls ParseCmdLine
DefaultParms ==
    [scaleRatio |-> 2 * MILLI, fileSubtype |-> YUV420_I420, height |-> 0,
     width |-> 0, edgeMethod |-> "REPEAT", gamma |-> MILLI,
     inFilename |-> NULL, outFilename |-> NULL]

\* one turn of the loop of ParseCmdLine, argv[arg_index] being an option:
\* [pc, arg_index, parms], pc being "usage" after print_usage, which exits,
\* and "fault" after atoi or atof of argv[argc], a null pointer
ParseOption(argv, arg_index, parms) ==
    LET argc == Len(argv)
        Arg(i) == argv[i + 1]
        opt == tolower(CharAt(Arg(arg_index), 1))
        Usage == [pc |-> "usage", arg_index |-> arg_index, parms |-> parms]
        Fault == [pc |-> "fault", arg_index |-> arg_index + 1, parms |-> parms]
        Go(p, n) == [pc |-> "parse", arg_index |-> n + 1, parms |-> p]
        Valued(set(_)) ==
            IF arg_index + 1 >= argc THEN Fault
            ELSE LET p == set(Arg(arg_index + 1))
                 IN  IF p.ok THEN Go(p.parms, arg_index + 1)
                     ELSE [pc |-> "usage", arg_index |-> arg_index + 1,
                           parms |-> p.parms]
    IN  CASE opt = "r" ->
                LET c == CharAt(Arg(arg_index), 2)
                IN  IF c = "1" THEN Go([parms EXCEPT !.scaleRatio = 2 * MILLI], arg_index)
                    ELSE IF c = "2" THEN Go([parms EXCEPT !.scaleRatio = MILLI \div 2], arg_index)
                    ELSE IF c = "0" THEN Go([parms EXCEPT !.scaleRatio = MILLI], arg_index)
                    ELSE Usage
          [] opt = "h" ->
                Valued(LAMBDA s : [parms |-> [parms EXCEPT !.height = atoi(s)],
                                   ok |-> atoi(s) # 0])
          [] opt = "w" ->
                Valued(LAMBDA s : [parms |-> [parms EXCEPT !.width = atoi(s)],
                                   ok |-> atoi(s) # 0])
          [] opt = "g" ->
                Valued(LAMBDA s : [parms |-> [parms EXCEPT !.gamma = atof(s)],
                                   ok |-> atof(s) # 0])
          [] opt = "y" ->
                Valued(LAMBDA s :
                    [parms |-> [parms EXCEPT !.fileSubtype = atoi(s) + 1],
                     ok |-> ~ (\/ atoi(s) + 1 < YUV420_I420
                               \/ atoi(s) + 1 < YUV420_NV21)])
          [] OTHER -> Usage

---------------------------------------------------------------------------
(* SpecCmdLine: main from its defaults to the construction of the gamma     *)
(* tables, ParseCmdLine taken one argument at a time                        *)

\* a command line holds at most MaxOpts options
MaxOpts == 2

\* the options of the test command lines, each with the value that follows it
OptionGroups ==
    {<<<<"-", "y">>, <<v>>>> : v \in {"0", "1", "2", "3", "4", "x"}}
    \cup {<<<<"-", "y">>, <<"-", "1">>>>, <<<<"-", "Y">>, <<"3">>>>, <<<<"-", "y">>>>,
          <<<<"-", "g">>, <<"2", ".", "2">>>>, <<<<"-", "g">>, <<"1", ".", "8">>>>,
          <<<<"-", "g">>, <<"1">>>>, <<<<"-", "g">>, <<"0">>>>, <<<<"-", "g">>>>,
          <<<<"-", "r", "0">>>>, <<<<"-", "r", "1">>>>, <<<<"-", "r", "2">>>>,
          <<<<"-", "r", "3">>>>, <<<<"-", "r">>>>,
          <<<<"-", "h">>, <<"2">>>>, <<<<"-", "w">>, <<"3">>>>, <<<<"-", "w">>, <<"0">>>>,
          <<<<"-", "x">>>>, <<<<"-">>>>}

\* the file names that end the test command lines: none, one, or a bitmap to
\* read and a bitmap to write
FileNames ==
    {<< >>, <<<<"a", ".", "b", "m", "p">>>>,
     <<<<"a", ".", "b", "m", "p">>, <<"b", ".", "b", "m", "p">>>>}

RECURSIVE Flatten(_)
Flatten(groups) ==
    IF groups = << >> THEN << >> ELSE Head(groups) \o Flatten(Tail(groups))

CommandLines ==
    {<<<<"I", "R">>>> \o Flatten(groups) \o files :
        groups \in UNION {[1..n -> OptionGroups] : n \in 0..MaxOpts},
        files \in FileNames}

InitCmdLine ==
    /\ pc = "parse"
    /\ \E argv \in CommandLines :
           args = [argv |-> argv, arg_index |-> 1, parms |-> DefaultParms,
                   tableGamma |-> 0]
    /\ ret = FALSE
    /\ imageIn = NoImage /\ imageOut = NoImage
    /\ imageInLinear = NoImage /\ imageOutLinear = NoImage
    /\ imageTmp = NoImage
    /\ pixel = NoPixel /\ rgbPixel = NoPixel /\ yuvPixel = NoPixel
    /\ contribs = NoTable

\* argv[arg_index] is an option
AtOption ==
    /\ args.arg_index < Len(args.argv)
    /\ CharAt(args.argv[args.arg_index + 1], 0) = "-"

\* the body of the while loop
ParseCmdLineOption ==
    /\ pc = "parse"
    /\ AtOption
    /\ \E r \in {ParseOption(args.argv, args.arg_index, args.parms)} :
           /\ pc' = r.pc
           /\ args' = [args EXCEPT !.arg_index = r.arg_index, !.parms = r.parms]
    /\ UNCHANGED <<imageTmp, ret, imageIn, imageOut, pixel, rgbPixel, yuvPixel, contribs,
                   imageInLinear, imageOutLinear>>

\* after the loop: the two file names
ParseCmdLineFiles ==
    /\ pc = "parse"
    /\ ~ AtOption
    /\ IF Len(args.argv) < args.arg_index + 2
       THEN pc' = "usage" /\ UNCHANGED <<imageTmp, args, ret>>
       ELSE /\ pc' = "parsed"
            /\ ret' = TRUE
            /\ args' = [args EXCEPT
                        !.arg_index = @ + 2,
                        !.parms = [@ EXCEPT
                            !.inFilename = args.argv[args.arg_index + 1],
                            !.outFilename = args.argv[args.arg_index + 2]]]
    /\ UNCHANGED <<imageTmp, imageIn, imageOut, pixel, rgbPixel, yuvPixel, contribs,
                   imageInLinear, imageOutLinear>>

\* main from the return of ParseCmdLine to the two tables, which it builds
\* from parms.gamma unless GetFileInfo, which reads the size of the bitmap
\* from its header, or the test of the output size has ended the run
MainBuildTables ==
    /\ pc = "parsed"
    /\ \E ok \in BOOLEAN :
           IF ok
           THEN pc' = "tables" /\ args' = [args EXCEPT !.tableGamma = args.parms.gamma]
           ELSE pc' = "exit" /\ UNCHANGED args
    /\ UNCHANGED <<imageTmp, ret, imageIn, imageOut, pixel, rgbPixel, yuvPixel, contribs,
                   imageInLinear, imageOutLinear>>

NextCmdLine == ParseCmdLineOption \/ ParseCmdLineFiles \/ MainBuildTables

SpecCmdLine == InitCmdLine /\ [][NextCmdLine]_vars

\* the command line holds an option -g
HasGammaOption(argv) ==
    \E i \in 2..Len(argv) :
        CharAt(argv[i], 0) = "-" /\ tolower(CharAt(argv[i], 1)) = "g"

\* C16: when the command line holds no option -g, the two tables are built
\* for gamma 2.2
C16_DefaultGamma ==
    (pc = "tables" /\ ~ HasGammaOption(args.argv)) =>
        args.tableGamma = 22 * (MILLI \div 10)

\* the format the usage text gives for a value of -y
FormatOfValue(s) ==
    CASE s = <<"0">> -> YUV420_I420
      [] s = <<"1">> -> YUV420_YV12
      [] s = <<"2">> -> YUV420_NV12
      [] s = <<"3">> -> YUV420_NV21
      [] OTHER -> NO_SUBTYPE

\* C20: an option -y followed by 0, 1, 2 or 3 selects YUV420_I420,
\* YUV420_YV12, YUV420_NV12 or YUV420_NV21 and the parse goes on to the next
\* argument; followed by anything else it ends in the usage text
C20_YOptionValues ==
    [][(/\ pc = "parse" /\ AtOption
        /\ tolower(CharAt(args.argv[args.arg_index + 1], 1)) = "y"
        /\ args.arg_index + 1 < Len(args.argv))
       => IF FormatOfValue(args.argv[args.arg_index + 2]) # NO_SUBTYPE
          THEN /\ pc' = "parse"
               /\ args'.parms.fileSubtype = FormatOfValue(args.argv[args.arg_index + 2])
               /\ args'.arg_index = args.arg_index + 2
          ELSE pc' = "usage"]_vars

---------------------------------------------------------------------------
(* SpecKernel: lanczos2Filter at one position t = n / d                     *)

\* positions are the fractions n / d with |n| <= MaxNum and 1 <= d <= MaxDen
MaxNum == 12
MaxDen == 4

InitKernel ==
    /\ pc = "init"
    /\ args \in [n : (0 - MaxNum)..MaxNum, d : 1..MaxDen]
    /\ ret = FALSE
    /\ imageIn = NoImage /\ imageOut = NoImage
    /\ imageInLinear = NoImage /\ imageOutLinear = NoImage
    /\ imageTmp = NoImage
    /\ pixel = NoPixel /\ rgbPixel = NoPixel /\ yuvPixel = NoPixel
    /\ contribs = NoTable

CallLanczos2Filter ==
    /\ pc = "init"
    /\ ret' = lanczos2Filter(args.n, args.d)
    /\ pc' = "lanczos2Filter"
    /\ UNCHANGED <<imageTmp, args, imageIn, imageOut, pixel, rgbPixel, yuvPixel, contribs,
                   imageInLinear, imageOutLinear>>

NextKernel == CallLanczos2Filter

SpecKernel == InitKernel /\ [][NextKernel]_vars

---------------------------------------------------------------------------
(* SpecPasses: ResizeImage of a double-precision test image into a          *)
(* double-precision image of the same colour space, one pass at a time,     *)
(* every allocation succeeding                                              *)

\* ResizeImage from "Create temp image buffer" to the end of the horizontal
\* pass: imageTmp
ResizeHorizontal(pImageIn, pImageOut, edgeMethod) ==
    LET cs   == pImageIn.colorSpace
        xinc == IF cs \in {"YUV420", "YUV422"} THEN 2 ELSE 1
        yinc == IF cs = "YUV420" THEN 2 ELSE 1
    IN  Let(MakeContribTable(pImageIn.width, pImageOut.width, edgeMethod),
            LAMBDA contribsY :
        Let(IF cs \in {"YUV420", "YUV422"}
            THEN MakeContribTable(pImageIn.width \div 2, pImageOut.width \div 2,
                                  edgeMethod)
            ELSE contribsY,
            LAMBDA contribsUV :
            HorzPass(pImageIn,
                     CreateImage(cs, pImageOut.width, pImageIn.height, "DOUBLE"),
                     pImageOut.width, xinc, yinc, contribsY, contribsUV)))

\* ResizeImage from "Vertical scaling" to the end: [ret, out]
ResizeVertical(pImageIn, pImageTmp, pImageOut, edgeMethod) ==
    LET cs   == pImageIn.colorSpace
        xinc == IF cs \in {"YUV420", "YUV422"} THEN 2 ELSE 1
        yinc == IF cs = "YUV420" THEN 2 ELSE 1
    IN  IF pImageIn.height = pImageOut.height
        THEN [ret |-> TRUE, out |-> CopyImage(pImageTmp, pImageOut).out]
        ELSE
        Let(MakeContribTable(pImageIn.height, pImageOut.height, edgeMethod),
            LAMBDA contribsY :
        Let(IF cs = "YUV420"
            THEN MakeContribTable(pImageIn.height \div 2, pImageOut.height \div 2,
                                  edgeMethod)
            ELSE contribsY,
            LAMBDA contribsUV :
            [ret |-> TRUE,
             out |-> VertPass(pImageTmp, pImageOut, xinc, yinc, contribsY, contribsUV)]))

InitPasses ==
    /\ pc = "init"
    /\ args \in [edgeMethod : EdgeMethod]
    /\ ret = FALSE
    /\ \E cs \in ColorSpaces, w \in Dims, h \in Dims, wo \in Dims, ho \in Dims,
          seed \in Seeds :
          /\ HasChroma(cs, w, h) /\ HasChroma(cs, wo, ho)
          /\ imageIn = TestImageDbl(cs, w, h, seed)
          /\ imageOut = TestImageDbl(cs, wo, ho, NumSeeds)
    /\ pixel = NoPixel /\ rgbPixel = NoPixel /\ yuvPixel = NoPixel
    /\ contribs = NoTable
    /\ imageInLinear = NoImage /\ imageOutLinear = NoImage
    /\ imageTmp = NoImage

\* images of one size: the copy and the return at the top of ResizeImage
ResizeSameSize ==
    /\ pc = "init"
    /\ imageIn.width = imageOut.width /\ imageIn.height = imageOut.height
    /\ imageOut' = CopyImage(imageIn, imageOut).out
    /\ ret' = TRUE
    /\ pc' = "ResizeImage"
    /\ UNCHANGED <<args, imageIn, pixel, rgbPixel, yuvPixel, contribs,
                   imageInLinear, imageOutLinear, imageTmp>>

HorizontalScaling ==
    /\ pc = "init"
    /\ ~ (imageIn.width = imageOut.width /\ imageIn.height = imageOut.height)
    /\ imageTmp' = ResizeHorizontal(imageIn, imageOut, args.edgeMethod)
    /\ pc' = "horizontal"
    /\ UNCHANGED <<args, ret, imageIn, imageOut, pixel, rgbPixel, yuvPixel,
                   contribs, imageInLinear, imageOutLinear>>

VerticalScaling ==
    /\ pc = "horizontal"
    /\ \E r \in {ResizeVertical(imageIn, imageTmp, imageOut, args.edgeMethod)} :
           /\ imageOut' = r.out
           /\ ret' = r.ret
    /\ pc' = "ResizeImage"
    /\ UNCHANGED <<args, imageIn, pixel, rgbPixel, yuvPixel, contribs,
                   imageInLinear, imageOutLinear, imageTmp>>

NextPasses == ResizeSameSize \/ HorizontalScaling \/ VerticalScaling

SpecPasses == InitPasses /\ [][NextPasses]_vars

\* the samples of pixel (y, x) of two double-precision images are equal
SamePixelDbl(a, b, y, x) ==
    GetPixelDbl(a, y, x, "REPEAT").pixel = GetPixelDbl(b, y, x, "REPEAT").pixel

\* C17: when the widths are equal and the heights differ, the image the
\* horizontal pass leaves has at every pixel the three samples of the input;
\* when the heights are equal and the widths differ, the output has at every
\* pixel the three samples of the image the horizontal pass left
C17_UnchangedAxisIsCopy ==
    /\ (/\ pc \in {"horizontal", "ResizeImage"}
        /\ imageIn.width = imageOut.width /\ imageIn.height # imageOut.height)
       => \A y \in 0..(imageIn.height - 1), x \in 0..(imageIn.width - 1) :
              SamePixelDbl(imageTmp, imageIn, y, x)
    /\ (/\ pc = "ResizeImage"
        /\ imageIn.height = imageOut.height /\ imageIn.width # imageOut.width)
       => /\ ret = TRUE
          /\ \A y \in 0..(imageOut.height - 1), x \in 0..(imageOut.width - 1) :
                 SamePixelDbl(imageOut, imageTmp, y, x)

---------------------------------------------------------------------------
(* SpecAlloc: main's images, then one ConvertImage or one ResizeImage,      *)
(* with at most one allocation that fails                                   *)

\* the allocation that fails: none, one of main's four images, the YUV444
\* tempImage of RGBImage2YUV, the imageTmp of ResizeImage, or one of the
\* four contribution tables of ResizeImage
AllocSites ==
    {"none", "pipeline", "tempImage", "imageTmp", "contribs", "contribsUV",
     "contribsVert", "contribsUVVert"}

\* ConvertImage when the allocation of tempImage may fail: [exit, hit, ret,
\* out], exit: CreateImage has ended the process, hit: the allocation that
\* fails was asked for
ConvertImageMem(pImageIn, pImageOut, tie, failing) ==
    IF /\ failing = "tempImage"
       /\ pImageIn.width = pImageOut.width /\ pImageIn.height = pImageOut.height
       /\ pImageIn.colorSpace = "RGB"
       /\ pImageOut.colorSpace \in {"YUV422", "YUV420"}
       /\ pImageIn.precision = "BPP8" /\ pImageOut.precision = "BPP8"
    THEN [exit |-> TRUE, hit |-> TRUE, ret |-> FALSE, out |-> pImageOut]
    ELSE Let(ConvertImage(pImageIn, pImageOut, tie),
             LAMBDA r : [exit |-> FALSE, hit |-> FALSE, ret |-> r.ret, out |-> r.out])

\* what the allocation that fails does to a call of ResizeImage: "exit"
\* (CreateImage of imageTmp ends the process), "fail" (MakeContribTable
\* returns FALSE and so does ResizeImage) or "none" (the call does not ask
\* for it, or does not get as far)
ResizeAllocOutcome(pImageIn, pImageOut, failing) ==
    IF pImageIn.width = pImageOut.width /\ pImageIn.height = pImageOut.height
    THEN "none"
    ELSE IF failing = "imageTmp" THEN "exit"
    ELSE IF failing = "contribs" THEN "fail"
    ELSE IF failing = "contribsUV" /\ pImageIn.colorSpace \in {"YUV420", "YUV422"}
    THEN "fail"
    ELSE IF pImageIn.dblPixArray = NULL \/ pImageIn.height = pImageOut.height
    THEN "none"
    ELSE IF failing = "contribsVert" THEN "fail"
    ELSE IF failing = "contribsUVVert" /\ pImageIn.colorSpace = "YUV420" THEN "fail"
    ELSE "none"

\* ResizeImage when one of its allocations may fail: [exit, hit, ret, out,
\* fault]
ResizeImageMem(pImageIn, pImageOut, edgeMethod, failing) ==
    IF ResizeAllocOutcome(pImageIn, pImageOut, failing) = "none"
    THEN Let(ResizeImage(pImageIn, pImageOut, edgeMethod),
             LAMBDA r : [exit |-> FALSE, hit |-> FALSE, ret |-> r.ret,
                         out |-> r.out, fault |-> r.fault])
    ELSE [exit |-> ResizeAllocOutcome(pImageIn, pImageOut, failing) = "exit",
          hit |-> TRUE, ret |-> FALSE, out |-> pImageOut, fault |-> FALSE]

InitAlloc ==
    /\ pc = "main"
    /\ args \in [failing : AllocSites, edgeMethod : EdgeMethod, hit : {FALSE}]
    /\ ret = TRUE
    /\ imageIn = NoImage /\ imageOut = NoImage
    /\ imageInLinear = NoImage /\ imageOutLinear = NoImage
    /\ imageTmp = NoImage
    /\ pixel = NoPixel /\ rgbPixel = NoPixel /\ yuvPixel = NoPixel
    /\ contribs = NoTable

\* main's CreateImage calls: an 8-bit frame and the image it is converted
\* into, a linear frame and the image it is resized into
MainCreateImages ==
    /\ pc = "main"
    /\ IF args.failing = "pipeline"
       THEN /\ pc' = "exit"
            /\ args' = [args EXCEPT !.hit = TRUE]
            /\ UNCHANGED <<imageIn, imageOut, imageInLinear, imageOutLinear>>
       ELSE /\ pc' = "created"
            /\ \E w \in 1..MaxInDim, h \in 1..MaxInDim, wo \in 1..MaxInDim,
                  ho \in 1..MaxInDim, cs \in ColorSpaces, csl \in {"RGB", "YUV420"} :
                  /\ HasChroma(csl, w, h) /\ HasChroma(csl, wo, ho)
                  /\ imageIn' = TestImage8("RGB", w, h, NumSeeds)
                  /\ imageOut' = CreateImage(cs, w, h, "BPP8")
                  /\ imageInLinear' = TestImageDbl(csl, w, h, NumSeeds)
                  /\ imageOutLinear' = CreateImage(csl, wo, ho, "DOUBLE")
            /\ UNCHANGED args
    /\ UNCHANGED <<ret, pixel, rgbPixel, yuvPixel, contribs, imageTmp>>

CallConvertImageMem ==
    /\ pc = "created"
    /\ \E r \in {ConvertImageMem(imageIn, imageOut, [k \in 0..2 |-> 0], args.failing)} :
           /\ pc' = IF r.exit THEN "exit" ELSE "ConvertImage"
           /\ args' = [args EXCEPT !.hit = r.hit]
           /\ ret' = r.ret
           /\ imageOut' = r.out
    /\ UNCHANGED <<imageIn, pixel, rgbPixel, yuvPixel, contribs,
                   imageInLinear, imageOutLinear, imageTmp>>

CallResizeImageMem ==
    /\ pc = "created"
    /\ \E r \in {ResizeImageMem(imageInLinear, imageOutLinear, args.edgeMethod,
                                args.failing)} :
           /\ pc' = IF r.exit THEN "exit" ELSE IF r.fault THEN "fault"
                    ELSE "ResizeImage"
           /\ args' = [args EXCEPT !.hit = r.hit]
           /\ ret' = r.ret
           /\ imageOutLinear' = r.out
    /\ UNCHANGED <<imageIn, imageOut, pixel, rgbPixel, yuvPixel, contribs,
                   imageInLinear, imageTmp>>

NextAlloc == MainCreateImages \/ CallConvertImageMem \/ CallResizeImageMem

SpecAlloc == InitAlloc /\ [][NextAlloc]_vars

\* C19: when the allocation that fails is the tempImage of a conversion,
\* the imageTmp of ResizeImage or a contribution table, the call returns
\* FALSE and the process goes on; the process ends only when the allocation
\* of one of main's images fails
C19_TransientAllocFailureReturns ==
    /\ (args.hit /\ args.failing # "pipeline") => (pc # "exit" /\ ret = FALSE)
    /\ pc = "exit" => args.failing = "pipeline"

\* sum_k(weight_k * source_k) / weightsSum for the sample (plane, y, x) of the
\* horizontal pass, before the clamp
HorzQuotient(pImageIn, x, y, plane, table) ==
    LET Pix(pos) == pImageIn.dblPixArray[plane][y][pos]
    IN  DblDiv(WeightedSum(table, x, Pix), table.weightsSum[x])

\* the same for the vertical pass
VertQuotient(pImageTmp, x, y, plane, table) ==
    LET Pix(pos) == pImageTmp.dblPixArray[plane][pos][x]
    IN  DblDiv(WeightedSum(table, y, Pix), table.weightsSum[y])

\* the samples (plane, y, x) a pass writes in an image of colour space cs
\* that is width x height
WrittenBy(cs, width, height) ==
    LET xinc == IF cs \in {"YUV420", "YUV422"} THEN 2 ELSE 1
        yinc == IF cs = "YUV420" THEN 2 ELSE 1
    IN  {s \in (0..2) \X (0..(height - 1)) \X (0..(width - 1)) :
            s[1] = Y_PLANE \/ (s[2] < height \div yinc /\ s[3] < width \div xinc)}

\* Body(contribs, contribsUV) for the two tables of a pass: the chroma
\* planes of a subsampled colour space have their own
WithTables(subsampled, inDimSize, outDimSize, edgeMethod, Body(_, _)) ==
    Let(MakeContribTable(inDimSize, outDimSize, edgeMethod), LAMBDA contribsY :
    Let(IF subsampled
        THEN MakeContribTable(inDimSize \div 2, outDimSize \div 2, edgeMethod)
        ELSE contribsY,
        LAMBDA contribsUV : Body(contribsY, contribsUV)))

\* every sample the horizontal pass wrote is the clamped quotient
HorzSamplesClamped ==
    WithTables(imageIn.colorSpace \in {"YUV420", "YUV422"},
               imageIn.width, imageOut.width, args.edgeMethod,
        LAMBDA contribsY, contribsUV :
        \A s \in WrittenBy(imageIn.colorSpace, imageOut.width, imageIn.height) :
            /\ imageTmp.dblPixArray[s[1]][s[2]][s[3]] \in 0..DBLONE
            /\ imageTmp.dblPixArray[s[1]][s[2]][s[3]] =
                   CLAMP(HorzQuotient(imageIn, s[3], s[2], s[1],
                            IF s[1] = Y_PLANE THEN contribsY ELSE contribsUV),
                         0, DBLONE))

\* every sample the vertical pass wrote is the clamped quotient
VertSamplesClamped ==
    WithTables(imageIn.colorSpace = "YUV420",
               imageIn.height, imageOut.height, args.edgeMethod,
        LAMBDA contribsY, contribsUV :
        \A s \in WrittenBy(imageIn.colorSpace, imageOut.width, imageOut.height) :
            /\ imageOut.dblPixArray[s[1]][s[2]][s[3]] \in 0..DBLONE
            /\ imageOut.dblPixArray[s[1]][s[2]][s[3]] =
                   CLAMP(VertQuotient(imageTmp, s[3], s[2], s[1],
                            IF s[1] = Y_PLANE THEN contribsY ELSE contribsUV),
                         0, DBLONE))

\* C21: every sample a filter pass of ResizeImage has written is
\* sum_k(weight_k * source_k) / weightsSum clamped to [0, 1], and so lies in
\* [0, 1], in the intermediate image and in the output
C21_FilteredSamplesClamped ==
    /\ pc \in {"horizontal", "ResizeImage"} /\ imageTmp # NoImage
       => HorzSamplesClamped
    /\ pc = "ResizeImage" /\ imageTmp # NoImage /\ imageIn.height # imageOut.height
       => VertSamplesClamped

\* a sample of the intermediate image of an RGB image whose quotient is above
\* 1.0, stored as 1.0
C21_Witness ==
    /\ pc = "horizontal"
    /\ imageIn.colorSpace = "RGB"
    /\ \E p \in 0..2, y \in 0..(imageIn.height - 1), x \in 0..(imageOut.width - 1) :
          /\ HorzQuotient(imageIn, x, y, p,
                 MakeContribTable(imageIn.width, imageOut.width, args.edgeMethod)) > DBLONE
          /\ imageTmp.dblPixArray[p][y][x] = DBLONE

---------------------------------------------------------------------------
(* SpecFrames: main's loop over the frames and subframes of the input, the  *)
(* files being there or not and one allocation of ResizeImage failing or    *)
(* not for each frame                                                       *)

MaxFrames == 2

\* the allocations of ResizeImage that may fail for a frame
FrameAllocSites == {"none", "imageTmp", "contribs", "contribsVert"}

\* the content of the file of frame (i, j)
FrameSeed(i, j) == (i + j) % NumSeeds

\* the loop variables after the body has run for (i, j): the next subframe,
\* or the first subframe of the next frame
NextFrame(a) ==
    IF a.j + 1 < a.numSubFrames
    THEN [a EXCEPT !.j = a.j + 1]
    ELSE [a EXCEPT !.i = a.i + 1, !.j = 0]

\* where main is after the body has run for the loop variables a: at the top
\* of the loop, or past it (MainCleanup, return EXIT_SUCCESS)
AfterBody(a) == IF NextFrame(a).i < a.numFrames THEN "loop" ELSE "done"

\* main's four images, and a sequence of BMP files (RGB) or of YUV files
\* with subframes
InitFrames ==
    /\ pc = "loop"
    /\ \E e \in EdgeMethod, n \in 1..MaxFrames, s \in 1..MaxFrames,
          cs \in {"RGB", "YUV420"} :
          /\ cs = "RGB" => s = 1
          /\ args = [edgeMethod |-> e, numFrames |-> n, numSubFrames |-> s,
                     i |-> 0, j |-> 0, saved |-> << >>]
          /\ \E w \in {2, 3}, wo \in {2, 3}, ho \in {2, 3} :
                /\ imageIn = CreateImage(cs, w, 2, "BPP8")
                /\ imageOut = CreateImage(cs, wo, ho, "BPP8")
                /\ imageInLinear = CreateImage(cs, w, 2, "DOUBLE")
                /\ imageOutLinear = CreateImage(cs, wo, ho, "DOUBLE")
    /\ ret = TRUE
    /\ pixel = NoPixel /\ rgbPixel = NoPixel /\ yuvPixel = NoPixel
    /\ contribs = NoTable /\ imageTmp = NoImage

\* LoadBmpImage or LoadRawYUVImage of the frame (i, j): the frame is in
\* imageIn, or there is no such file and the body is over
LoadFrame ==
    /\ pc = "loop"
    /\ \/ /\ imageIn' = TestImage8(imageIn.colorSpace, imageIn.width,
                                   imageIn.height, FrameSeed(args.i, args.j))
          /\ ret' = TRUE
          /\ pc' = "loaded"
          /\ UNCHANGED args
       \/ /\ ret' = FALSE
          /\ pc' = AfterBody(args)
          /\ args' = NextFrame(args)
          /\ UNCHANGED imageIn
    /\ UNCHANGED <<imageOut, pixel, rgbPixel, yuvPixel, contribs, imageInLinear,
                   imageOutLinear, imageTmp>>

FrameDegamma ==
    /\ pc = "loaded"
    /\ \E r \in {DegammaImage(imageIn, imageInLinear, fwdGamma)} :
           /\ imageInLinear' = r.out
           /\ ret' = r.ret
           /\ pc' = IF r.ret THEN "DegammaImage" ELSE "return"
    /\ UNCHANGED <<imageTmp, args, imageIn, imageOut, pixel, rgbPixel, yuvPixel,
                   contribs, imageOutLinear>>

FrameResize ==
    /\ pc = "DegammaImage"
    /\ \E failing \in FrameAllocSites :
       \E r \in {ResizeImageMem(imageInLinear, imageOutLinear, args.edgeMethod,
                                failing)} :
           /\ imageOutLinear' = r.out
           /\ ret' = r.ret
           /\ pc' = IF r.exit THEN "exit" ELSE IF r.fault THEN "fault"
                    ELSE IF r.ret THEN "ResizeImage" ELSE "return"
    /\ UNCHANGED <<imageTmp, args, imageIn, imageOut, pixel, rgbPixel, yuvPixel,
                   contribs, imageInLinear>>

FrameGamma ==
    /\ pc = "ResizeImage"
    /\ \E r \in {GammaImage(imageOutLinear, imageOut, bwdGamma)} :
           /\ imageOut' = r.out
           /\ ret' = r.ret
           /\ pc' = IF r.ret THEN "GammaImage" ELSE "return"
    /\ UNCHANGED <<imageTmp, args, imageIn, pixel, rgbPixel, yuvPixel, contribs,
                   imageInLinear, imageOutLinear>>

\* SaveRawYUVImage or SaveBmpImage of imageOut
SaveFrame_AnyStage ==
    /\ pc \in {"loaded", "DegammaImage", "ResizeImage", "GammaImage"}
    /\ args' = [NextFrame(args) EXCEPT !.saved = Append(@, <<args.i, args.j>>)]
    /\ pc' = AfterBody(args)
    /\ UNCHANGED <<ret, imageIn, imageOut, pixel, rgbPixel, yuvPixel, contribs,
                   imageInLinear, imageOutLinear, imageTmp>>

SaveFrame ==
    /\ pc = "GammaImage"
    /\ args' = [NextFrame(args) EXCEPT !.saved = Append(@, <<args.i, args.j>>)]
    /\ pc' = AfterBody(args)
    /\ UNCHANGED <<ret, imageIn, imageOut, pixel, rgbPixel, yuvPixel, contribs,
                   imageInLinear, imageOutLinear, imageTmp>>

NextFrames == LoadFrame \/ FrameDegamma \/ FrameResize \/ FrameGamma \/ SaveFrame

SpecFrames == InitFrames /\ [][NextFrames]_vars

\* C22: for a frame that was loaded, DegammaImage runs first, ResizeImage
\* only after DegammaImage returned success, GammaImage only after
\* ResizeImage returned success, and a file is written only after GammaImage
\* returned success: what is saved then is the gamma-encoded image of the
\* resized image of the degamma'd image of the frame
C22_StagesInOrder ==
    [][/\ imageInLinear' # imageInLinear => pc = "loaded"
       /\ imageOutLinear' # imageOutLinear => (pc = "DegammaImage" /\ ret = TRUE)
       /\ imageOut' # imageOut => (pc = "ResizeImage" /\ ret = TRUE)
       /\ args'.saved # args.saved =>
            /\ pc = "GammaImage" /\ ret = TRUE
            /\ args'.saved = Append(args.saved, <<args.i, args.j>>)
            /\ imageInLinear = DegammaImage(imageIn, imageInLinear, fwdGamma).out
            /\ imageOutLinear =
                 ResizeImage(imageInLinear, imageOutLinear, args.edgeMethod).out
            /\ imageOut = GammaImage(imageOutLinear, imageOut, bwdGamma).out]_vars

\* two frames were saved, the second one resized to another size
C22_Witness ==
    /\ pc = "done"
    /\ Len(args.saved) = 2
    /\ imageOutLinear.width # imageInLinear.width
    /\ imageOut.pixArray[Y_PLANE][1][1] > 0

\* C24: a frame that cannot be loaded, degamma'd, resized or gamma-encoded
\* is given up, nothing is saved for it, and the loop goes on with the next
\* frame or subframe; the run ends only past the last frame
C24_FailureSkipsFrame ==
    [][(ret' = FALSE /\ pc \in {"loop", "loaded", "DegammaImage", "ResizeImage"}) =>
            /\ args' = NextFrame(args)
            /\ pc' = AfterBody(args)]_vars

\* C25: ConvertImage returns FALSE and leaves the destination as it was when
\* the two images differ in width or height, when the conversion is between
\* RGB and YUV and one of the images is not 8-bit, and when both are YUV of
\* different subsampling; when the colour spaces are equal its result and
\* its destination are those of CopyImage
C25_ConvertImageRejects ==
    [][pc' = "ConvertImage" =>
        /\ (\/ imageIn.width # imageOut.width
            \/ imageIn.height # imageOut.height
            \/ /\ imageIn.colorSpace # imageOut.colorSpace
               /\ "RGB" \in {imageIn.colorSpace, imageOut.colorSpace}
               /\ (imageIn.precision # "BPP8" \/ imageOut.precision # "BPP8")
            \/ /\ IsYUV(imageIn.colorSpace) /\ IsYUV(imageOut.colorSpace)
               /\ imageIn.colorSpace # imageOut.colorSpace)
           => (ret' = FALSE /\ imageOut' = imageOut)
        /\ imageIn.colorSpace = imageOut.colorSpace
           => [ret |-> ret', out |-> imageOut'] = CopyImage(imageIn, imageOut)]_vars

\* a YUV444 image was refused for a YUV420 destination of the same size and
\* precision
C25_Witness ==
    /\ pc = "ConvertImage" /\ ret = FALSE
    /\ imageIn.colorSpace = "YUV444" /\ imageOut.colorSpace = "YUV420"
    /\ imageIn.width = imageOut.width /\ imageIn.height = imageOut.height
    /\ imageIn.precision = "BPP8" /\ imageOut.precision = "BPP8"
    /\ imageOut.pixArray # imageIn.pixArray

\* the candidate source indices left..right of output index i
Candidates(i, inDimSize, outDimSize) ==
    LET cn == CenterNum(i, inDimSize, outDimSize)
        hn == HalfTapsNum(inDimSize, outDimSize)
    IN  ((cn - hn) \div (2 * outDimSize))..Ceil(cn + hn, 2 * outDimSize)

\* the candidates of output index i that lie in the image and have a weight
InImageTaps(i, inDimSize, outDimSize) ==
    {j \in Candidates(i, inDimSize, outDimSize) :
        /\ 0 <= j /\ j < inDimSize
        /\ TapWeight(i, j, inDimSize, outDimSize) # 0}

Range(s) == {s[k] : k \in 1..Len(s)}

\* C26: in every table MakeContribTable has built, for sizes from 1 up and
\* each edge policy, every stored contribPixPos[i][k] lies in
\* 0..inDimSize-1, and numContribPixels[i] is at most maxTaps =
\* trunc(2 * halfSupport + 1), the length of the rows that were allocated
C26_TableWithinBounds ==
    (pc = "MakeContribTable" /\ ret = TRUE) =>
        /\ contribs.maxTaps =
             (IF args.outDimSize > args.inDimSize
              THEN 2 * LANCZOS2_NUMTAPS
              ELSE (2 * LANCZOS2_NUMTAPS * args.inDimSize) \div args.outDimSize) + 1
        /\ \A i \in 0..(args.outDimSize - 1) :
            /\ contribs.numContribPixels[i] <= contribs.maxTaps
            /\ Len(contribs.contribPixPos[i]) = contribs.numContribPixels[i]
            /\ Len(contribs.filterWeights[i]) = contribs.numContribPixels[i]
            /\ \A k \in 1..contribs.numContribPixels[i] :
                 contribs.contribPixPos[i][k] \in 0..(args.inDimSize - 1)

\* a row that is full, and a row with a candidate left of the image stored
\* as index 0
C26_Witness ==
    /\ pc = "MakeContribTable" /\ ret = TRUE
    /\ args.edgeMethod = "REPEAT" /\ args.inDimSize >= 2
    /\ \E i \in 0..(args.outDimSize - 1) :
          contribs.numContribPixels[i] = contribs.maxTaps
    /\ \E i \in 0..(args.outDimSize - 1) :
          /\ \E j \in Candidates(i, args.inDimSize, args.outDimSize) :
                j < 0 /\ TapWeight(i, j, args.inDimSize, args.outDimSize) # 0
          /\ contribs.contribPixPos[i][1] = 0 /\ contribs.contribPixPos[i][2] = 0

\* C27: in every table MakeContribTable has built, for sizes from 1 up and
\* each edge policy, NOCONTRIB among them, every output index has at least
\* one contributor and a sum of weights that is not zero
C27_RowsNotEmpty ==
    (pc = "MakeContribTable" /\ ret = TRUE) =>
        \A i \in 0..(args.outDimSize - 1) :
            /\ contribs.numContribPixels[i] >= 1
            /\ contribs.weightsSum[i] # 0

\* under NOCONTRIB, a row that lost candidates left of the image
C27_Witness ==
    /\ pc = "MakeContribTable" /\ ret = TRUE
    /\ args.edgeMethod = "NOCONTRIB"
    /\ \E i \in 0..(args.outDimSize - 1) :
          /\ \E j \in Candidates(i, args.inDimSize, args.outDimSize) :
                j < 0 /\ TapWeight(i, j, args.inDimSize, args.outDimSize) # 0
          /\ contribs.numContribPixels[i] >= 1
          /\ contribs.weightsSum[i] # 0
          /\ contribs.weightsSum[i] # ONE

\* C29: under NOCONTRIB the contributors of every output index are the
\* candidates that lie in the image and have a weight, each stored once
\* under its own index: a candidate j < 0 or j >= inDimSize adds no entry
C29_OutsideNeverContributes ==
    (pc = "MakeContribTable" /\ ret = TRUE /\ args.edgeMethod = "NOCONTRIB") =>
        \A i \in 0..(args.outDimSize - 1) :
            /\ Range(contribs.contribPixPos[i]) =
                 InImageTaps(i, args.inDimSize, args.outDimSize)
            /\ contribs.numContribPixels[i] =
                 Cardinality(InImageTaps(i, args.inDimSize, args.outDimSize))

\* the chroma samples <<plane, y, x>> GetPixel addresses for the luma
\* coordinates of image
AddressedChroma(image) ==
    {<<p, HandleColorspaceAddress(x, y, image.colorSpace)[2],
          HandleColorspaceAddress(x, y, image.colorSpace)[1]>> :
        p \in {U_PLANE, V_PLANE}, y \in 0..(image.height - 1),
        x \in 0..(image.width - 1)}

\* C28: after ResizeImage has returned TRUE for a YUV422 or YUV420 image and
\* a destination of another size, every chroma sample of the destination
\* that GetPixel addresses for one of its luma coordinates was written by
\* the resampler: it lies within the loops of the last pass and holds what
\* the filter of that pass gives (or, the heights being equal, the sample
\* the horizontal pass wrote), odd widths and heights included
C28_AddressedChromaWritten ==
    (/\ pc = "ResizeImage" /\ ret = TRUE
     /\ imageIn.colorSpace \in {"YUV422", "YUV420"}
     /\ (imageIn.width # imageOut.width \/ imageIn.height # imageOut.height))
    => WithTables(imageIn.colorSpace = "YUV420",
                  imageIn.height, imageOut.height, args.edgeMethod,
          LAMBDA contribsY, contribsUV :
          \A s \in AddressedChroma(imageOut) :
              /\ s \in WrittenBy(imageOut.colorSpace, imageOut.width, imageOut.height)
              /\ imageOut.dblPixArray[s[1]][s[2]][s[3]] =
                   IF imageIn.height = imageOut.height
                   THEN imageTmp.dblPixArray[s[1]][s[2]][s[3]]
                   ELSE CLAMP(VertQuotient(imageTmp, s[3], s[2], s[1], contribsUV),
                              0, DBLONE))

---------------------------------------------------------------------------
(* SpecLifetime: ResizeImage step by step, with what it allocates and       *)
(* frees: imageTmp and the contribution tables of the two passes, at most   *)
(* one allocation failing                                                   *)

\* the allocations of ResizeImage: imageTmp, and the tables MakeContribTable
\* builds for contribs and contribsUV in the horizontal and in the vertical
\* pass
TableSites == {"contribs", "contribsUV", "contribsVert", "contribsUVVert"}

ResizeSites == {"none", "imageTmp"} \cup TableSites

\* no table built, none destroyed
NoTables == [id \in TableSites |-> [built |-> FALSE, destroyed |-> 0]]

\* MakeContribTable has returned TRUE for table id
Build(tables, id) == [tables EXCEPT ![id].built = TRUE]

\* DestroyContribTable of table id
Destroy(tables, id) == [tables EXCEPT ![id].destroyed = @ + 1]

\* the chroma planes have a table of their own in the horizontal pass
OwnChromaHorz(colorSpace) == colorSpace \in {"YUV420", "YUV422"}

\* the chroma planes have a table of their own in the vertical pass
OwnChromaVert(colorSpace) == colorSpace = "YUV420"

InitLifetime ==
    /\ pc = "entry"
    /\ args \in [edgeMethod : EdgeMethod, failing : ResizeSites,
                 tables : {NoTables}, tmp : {"none"}, staleRead : {FALSE}]
    /\ ret = FALSE
    /\ \E cs \in ColorSpaces, w \in Dims, h \in Dims, wo \in Dims, ho \in Dims :
          /\ HasChroma(cs, w, h) /\ HasChroma(cs, wo, ho)
          /\ imageIn = TestImageDbl(cs, w, h, 0)
          /\ imageOut = TestImageDbl(cs, wo, ho, NumSeeds)
    /\ pixel = NoPixel /\ rgbPixel = NoPixel /\ yuvPixel = NoPixel
    /\ contribs = NoTable
    /\ imageInLinear = NoImage /\ imageOutLinear = NoImage
    /\ imageTmp = NoImage

\* the copy of images of one size, or CreateImage of imageTmp, which ends
\* the process when it cannot allocate
ResizeBegin ==
    /\ pc = "entry"
    /\ IF imageIn.width = imageOut.width /\ imageIn.height = imageOut.height
       THEN /\ imageOut' = CopyImage(imageIn, imageOut).out
            /\ ret' = TRUE
            /\ pc' = "return"
            /\ UNCHANGED <<args, imageTmp>>
       ELSE IF args.failing = "imageTmp"
       THEN /\ pc' = "exit"
            /\ UNCHANGED <<args, ret, imageOut, imageTmp>>
       ELSE /\ imageTmp' = CreateImage(imageIn.colorSpace, imageOut.width,
                                       imageIn.height, "DOUBLE")
            /\ args' = [args EXCEPT !.tmp = "live"]
            /\ pc' = "horzTables"
            /\ UNCHANGED <<ret, imageOut>>
    /\ UNCHANGED <<imageIn, pixel, rgbPixel, yuvPixel, contribs, imageInLinear,
                   imageOutLinear>>

\* the tables of the horizontal pass; a table that cannot be built makes
\* ResizeImage return FALSE at once
MakeHorzTables ==
    /\ pc = "horzTables"
    /\ IF args.failing = "contribs"
       THEN /\ ret' = FALSE /\ pc' = "return"
            /\ UNCHANGED <<args, contribs>>
       ELSE /\ contribs' = MakeContribTable(imageIn.width, imageOut.width,
                                            args.edgeMethod)
            /\ IF OwnChromaHorz(imageIn.colorSpace) /\ args.failing = "contribsUV"
               THEN /\ ret' = FALSE /\ pc' = "return"
                    /\ args' = [args EXCEPT !.tables = Build(@, "contribs")]
               ELSE /\ pc' = "horzFilter"
                    /\ args' = [args EXCEPT !.tables =
                                  IF OwnChromaHorz(imageIn.colorSpace)
                                  THEN Build(Build(@, "contribs"), "contribsUV")
                                  ELSE Build(@, "contribs")]
                    /\ UNCHANGED ret
    /\ UNCHANGED <<imageIn, imageOut, pixel, rgbPixel, yuvPixel, imageInLinear,
                   imageOutLinear, imageTmp>>

\* the loops of Filter1DHorz: they read contribs, and contribsUV or the
\* table contribsUV points into
HorzFilter ==
    /\ pc = "horzFilter"
    /\ imageTmp' = ResizeHorizontal(imageIn, imageOut, args.edgeMethod)
    /\ args' = [args EXCEPT !.staleRead =
                  \/ @
                  \/ args.tables["contribs"].destroyed > 0
                  \/ /\ OwnChromaHorz(imageIn.colorSpace)
                     /\ args.tables["contribsUV"].destroyed > 0]
    /\ pc' = "horzDestroy"
    /\ UNCHANGED <<ret, imageIn, imageOut, pixel, rgbPixel, yuvPixel, contribs,
                   imageInLinear, imageOutLinear>>

\* DestroyContribTable after the horizontal pass, and the copy and the
\* return when the heights are equal
HorzDestroy ==
    /\ pc = "horzDestroy"
    /\ args' = [args EXCEPT !.tables =
                  IF imageIn.colorSpace \in {"YUV420", "YUV422"}
                  THEN Destroy(Destroy(@, "contribs"), "contribsUV")
                  ELSE Destroy(@, "contribs")]
    /\ IF imageIn.height = imageOut.height
       THEN /\ imageOut' = CopyImage(imageTmp, imageOut).out
            /\ ret' = TRUE
            /\ pc' = "return"
       ELSE /\ pc' = "vertTables"
            /\ UNCHANGED <<ret, imageOut>>
    /\ UNCHANGED <<imageIn, pixel, rgbPixel, yuvPixel, contribs, imageInLinear,
                   imageOutLinear, imageTmp>>

\* the tables of the vertical pass
MakeVertTables ==
    /\ pc = "vertTables"
    /\ IF args.failing = "contribsVert"
       THEN /\ ret' = FALSE /\ pc' = "return"
            /\ UNCHANGED <<args, contribs>>
       ELSE /\ contribs' = MakeContribTable(imageIn.height, imageOut.height,
                                            args.edgeMethod)
            /\ IF OwnChromaVert(imageIn.colorSpace) /\ args.failing = "contribsUVVert"
               THEN /\ ret' = FALSE /\ pc' = "return"
                    /\ args' = [args EXCEPT !.tables = Build(@, "contribsVert")]
               ELSE /\ pc' = "vertFilter"
                    /\ args' = [args EXCEPT !.tables =
                                  IF OwnChromaVert(imageIn.colorSpace)
                                  THEN Build(Build(@, "contribsVert"), "contribsUVVert")
                                  ELSE Build(@, "contribsVert")]
                    /\ UNCHANGED ret
    /\ UNCHANGED <<imageIn, imageOut, pixel, rgbPixel, yuvPixel, imageInLinear,
                   imageOutLinear, imageTmp>>

\* the loops of Filter1DVert
VertFilter ==
    /\ pc = "vertFilter"
    /\ imageOut' = ResizeVertical(imageIn, imageTmp, imageOut, args.edgeMethod).out
    /\ args' = [args EXCEPT !.staleRead =
                  \/ @
                  \/ args.tables["contribsVert"].destroyed > 0
                  \/ /\ OwnChromaVert(imageIn.colorSpace)
                     /\ args.tables["contribsUVVert"].destroyed > 0]
    /\ pc' = "vertDestroy"
    /\ UNCHANGED <<ret, imageIn, pixel, rgbPixel, yuvPixel, contribs,
                   imageInLinear, imageOutLinear, imageTmp>>

\* DestroyContribTable after the vertical pass, DestroyImage of imageTmp,
\* return TRUE
VertDestroy ==
    /\ pc = "vertDestroy"
    /\ args' = [args EXCEPT
                  !.tables = IF imageIn.colorSpace = "YUV420"
                             THEN Destroy(Destroy(@, "contribsVert"), "contribsUVVert")
                             ELSE Destroy(@, "contribsVert"),
                  !.tmp = "released"]
    /\ ret' = TRUE
    /\ pc' = "return"
    /\ UNCHANGED <<imageIn, imageOut, pixel, rgbPixel, yuvPixel, contribs,
                   imageInLinear, imageOutLinear, imageTmp>>

NextLifetime ==
    \/ ResizeBegin \/ MakeHorzTables \/ HorzFilter \/ HorzDestroy
    \/ MakeVertTables \/ VertFilter \/ VertDestroy

SpecLifetime == InitLifetime /\ [][NextLifetime]_vars

\* C23: when ResizeImage returns, TRUE or FALSE, every contribution table
\* that was built has been destroyed exactly once, whatever the colour
\* space, and no filter call has read a table that was destroyed
C23_TablesDestroyedOnce ==
    /\ ~ args.staleRead
    /\ \A id \in TableSites : args.tables[id].destroyed <= 1
    /\ pc = "return" =>
          \A id \in TableSites :
              args.tables[id].built => args.tables[id].destroyed = 1

\* C30: when ResizeImage returns after it has created imageTmp, by the end
\* of the two passes, by the return of equal heights or by one of the
\* returns of a table that could not be built, imageTmp has been released
C30_TmpImageReleased ==
    (pc = "return" /\ args.tmp # "none") => args.tmp = "released"

====
